---- MODULE Spec2Model ----
(***************************************************************************)
(* Thaichecker: the 8x8 board, the rule engine (move enumeration with      *)
(* mandatory capture and multi-jump chains, move application, promotion)   *)
(* modelled from src/app/board.py and src/app/game_logic.py; the minimax    *)
(* search of src/app/ai_minimax.py, the square notation of the interfaces, *)
(* the episode life cycle of src/app/thai_checker_env.py, and the games    *)
(* played through src/app/interface_cli.py and src/app/interface_gui.py    *)
(* (selection, moves, the AI's turn, undo, save and load of the move log). *)
(***************************************************************************)
EXTENDS Integers, Sequences, FiniteSets, TLC

VARIABLES
    board,           \* Board.board: 8x8 grid of Piece or None
    current_player,  \* the side to move
    ply,             \* number of moves executed so far in this run
    prev_board,      \* history: the board before the last execute_move
    last_move,       \* history: the Move last handed to execute_move
    last_ok,         \* history: what the last execute_move returned
    done,            \* ThaiCheckerEnv.done, CLI.game_over, GUI.game_over
    best,            \* history: the last get_best_move call and what it did
    call,            \* history: the last Board accessor or env call and its result
    _valid_moves,    \* ThaiCheckerEnv._valid_moves, where the env is followed
    ui,              \* the front end that owns the game, "NONE" without one: "ENV",
                     \* "GUI", "CLI" and then the prompt CLI.run waits at, "OFF" left
    winner,          \* CLI.winner, GUI.winner
    ai_enabled,      \* CLI.ai_enabled; the GUI always plays against the AI
    selected_pos,    \* GUI.selected_pos; (row, col) of CLI.play_turn
    valid_moves,     \* GUI.valid_moves; moves of CLI.play_turn
    move_log,        \* GUI.move_log: one <<white move, black move>> per round
    current_round_white_move,  \* GUI.current_round_white_move
    history,         \* GUI.history: the undo stack of snapshots
    trail            \* history: the game states before each move not taken back

\* the fields of the front ends
front == <<ui, winner, ai_enabled, selected_pos, valid_moves, move_log,
           current_round_white_move, history, trail>>

vars == <<board, current_player, ply, prev_board, last_move, last_ok, done, best, call,
          _valid_moves, ui, winner, ai_enabled, selected_pos, valid_moves, move_log,
          current_round_white_move, history, trail>>

-----------------------------------------------------------------------------
(* Bounds of the model *)

\* plies played from the initial position
MaxPly == 5

\* plies played on from a mid-game position
MaxMidPly == 4

\* plies played when arbitrary (also illegal) moves are applied
MaxRawPly == 2

-----------------------------------------------------------------------------
(* board.py: PieceType, Player, Piece *)

MAN == "MAN"
KING == "KING"
WHITE == "WHITE"
BLACK == "BLACK"

PieceType == {MAN, KING}
Player == {WHITE, BLACK}

\* Python's None for an Optional[Piece]
None == [player |-> "NONE", piece_type |-> "NONE"]

\* Piece(player, piece_type)
Piece(player, piece_type) == [player |-> player, piece_type |-> piece_type]

\* Piece.is_king
is_king(piece) == piece.piece_type = KING

\* Piece.promote_to_king
promote_to_king(piece) == [piece EXCEPT !.piece_type = KING]

\* faulty variant of Opponent: the side is not switched
Opponent_stays(player) == player

\* the other side (the "BLACK if p == WHITE else WHITE" idiom)
Opponent(player) == IF player = WHITE THEN BLACK ELSE WHITE

-----------------------------------------------------------------------------
(* board.py: Board *)

\* Board.size
size == 8

Rows == 0 .. (size - 1)

\* Board.is_dark_square
is_dark_square(row, col) == (row + col) % 2 = 1

\* Board.is_valid_position
is_valid_position(row, col) == 0 <= row /\ row < size /\ 0 <= col /\ col < size

\* the grid of Board.__init__ before setup_initial_position
EmptyBoard == [row \in Rows |-> [col \in Rows |-> None]]

\* Board.get_piece
get_piece(b, row, col) ==
    IF is_valid_position(row, col) THEN b[row][col] ELSE None

\* Board.set_piece
set_piece(b, row, col, piece) ==
    IF is_valid_position(row, col) THEN [b EXCEPT ![row][col] = piece] ELSE b

\* Board.setup_initial_position, applied to the empty grid
setup_initial_position ==
    [row \in Rows |-> [col \in Rows |->
        IF row < 2 /\ is_dark_square(row, col) THEN Piece(BLACK, MAN)
        ELSE IF row >= 6 /\ is_dark_square(row, col) THEN Piece(WHITE, MAN)
        ELSE None]]

\* faulty variant of move_piece: the far rows of the two sides are swapped
move_piece_swapped_rows(b, from_row, from_col, to_row, to_col) ==
    LET piece == get_piece(b, from_row, from_col)
        promoted ==
            IF piece # None /\ ~is_king(piece)
               /\ (   (piece.player = WHITE /\ to_row = 7)
                   \/ (piece.player = BLACK /\ to_row = 0))
            THEN promote_to_king(piece)
            ELSE piece
        b1 == set_piece(b, to_row, to_col, piece)
        b2 == set_piece(b1, from_row, from_col, None)
    IN  IF get_piece(b2, to_row, to_col) = piece /\ piece # None
        THEN set_piece(b2, to_row, to_col, promoted)
        ELSE b2

\* Board.move_piece: relocate, clear the origin, promote a Man on its far row
move_piece(b, from_row, from_col, to_row, to_col) ==
    LET piece == get_piece(b, from_row, from_col)
        promoted ==
            IF piece # None /\ ~is_king(piece)
               /\ (   (piece.player = WHITE /\ to_row = 0)
                   \/ (piece.player = BLACK /\ to_row = 7))
            THEN promote_to_king(piece)
            ELSE piece
        b1 == set_piece(b, to_row, to_col, piece)
        b2 == set_piece(b1, from_row, from_col, None)
    IN  \* the promotion mutates the Piece object, wherever the grid still holds it
        IF get_piece(b2, to_row, to_col) = piece /\ piece # None
        THEN set_piece(b2, to_row, to_col, promoted)
        ELSE b2

\* Board.remove_piece
remove_piece(b, row, col) == set_piece(b, row, col, None)

\* the squares in row-major order, as the nested loops of get_all_pieces visit them
AllSquares == [i \in 1 .. (size * size) |-> <<(i - 1) \div size, (i - 1) % size>>]

\* Board.get_all_pieces: (row, col) of the player's pieces, row-major
get_all_pieces(b, player) ==
    SelectSeq(AllSquares,
              LAMBDA sq : get_piece(b, sq[1], sq[2]) # None
                          /\ get_piece(b, sq[1], sq[2]).player = player)

\* Board.count_pieces
count_pieces(b, player) == Len(get_all_pieces(b, player))

-----------------------------------------------------------------------------
(* game_logic.py: Move *)

\* Move(from_pos, to_pos, captured_pieces)
Move(from_pos, to_pos, captured_pieces) ==
    [from_pos |-> from_pos, to_pos |-> to_pos, captured_pieces |-> captured_pieces]

\* Move.is_capture
is_capture(m) == Len(m.captured_pieces) > 0

\* Python's "x in list" for a list of squares
InList(x, list) == \E i \in 1 .. Len(list) : list[i] = x

\* the element of a one-element set; a name bound over such a set stands for
\* a value computed once, as a local variable of the code does
Only(S) == CHOOSE x \in S : TRUE

-----------------------------------------------------------------------------
(* game_logic.py: GameLogic, move enumeration *)

RECURSIVE _get_man_capture_moves(_, _, _, _, _, _, _)
RECURSIVE _get_king_capture_moves(_, _, _, _, _, _)
RECURSIVE KingScan(_, _, _, _, _, _, _, _)

\* faulty variant of ManCaptureDir: the jumped piece may be of either side
ManCaptureDir_any_side(b, row, col, piece, direction, captured_so_far, original_pos, dc) ==
    LET enemy_row == row + direction
        enemy_col == col + dc
        land_row == row + 2 * direction
        land_col == col + 2 * dc
    IN  IF ~is_valid_position(enemy_row, enemy_col) THEN <<>>
        ELSE IF ~is_valid_position(land_row, land_col) THEN <<>>
        ELSE IF get_piece(b, enemy_row, enemy_col) # None
                /\ get_piece(b, land_row, land_col) = None
                /\ ~InList(<<enemy_row, enemy_col>>, captured_so_far)
        THEN
            LET new_captured == Append(captured_so_far, <<enemy_row, enemy_col>>)
                next_captures ==
                    _get_man_capture_moves(b, land_row, land_col, piece,
                                           direction, new_captured, original_pos)
            IN  IF next_captures # <<>>
                THEN next_captures
                ELSE <<Move(original_pos, <<land_row, land_col>>, new_captured)>>
        ELSE <<>>

\* faulty variant of ManCaptureDir: a Move is emitted for every hop of a chain
ManCaptureDir_every_hop(b, row, col, piece, direction, captured_so_far, original_pos, dc) ==
    LET enemy_row == row + direction
        enemy_col == col + dc
        land_row == row + 2 * direction
        land_col == col + 2 * dc
    IN  IF ~is_valid_position(enemy_row, enemy_col) THEN <<>>
        ELSE IF ~is_valid_position(land_row, land_col) THEN <<>>
        ELSE IF get_piece(b, enemy_row, enemy_col) # None
                /\ get_piece(b, enemy_row, enemy_col).player # piece.player
                /\ get_piece(b, land_row, land_col) = None
                /\ ~InList(<<enemy_row, enemy_col>>, captured_so_far)
        THEN
            LET new_captured == Append(captured_so_far, <<enemy_row, enemy_col>>)
            IN  <<Move(original_pos, <<land_row, land_col>>, new_captured)>>
                \o _get_man_capture_moves(b, land_row, land_col, piece,
                                          direction, new_captured, original_pos)
        ELSE <<>>

\* one iteration (one dc) of the loop of _get_man_capture_moves
ManCaptureDir(b, row, col, piece, direction, captured_so_far, original_pos, dc) ==
    LET dr == direction
        enemy_row == row + dr
        enemy_col == col + dc
        land_row == row + 2 * dr
        land_col == col + 2 * dc
    IN  IF ~is_valid_position(enemy_row, enemy_col) THEN <<>>
        ELSE IF ~is_valid_position(land_row, land_col) THEN <<>>
        ELSE
            LET enemy == get_piece(b, enemy_row, enemy_col)
                land == get_piece(b, land_row, land_col)
            IN  IF enemy # None /\ enemy.player # piece.player
                   /\ land = None
                   /\ ~InList(<<enemy_row, enemy_col>>, captured_so_far)
                THEN
                    LET new_captured == Append(captured_so_far, <<enemy_row, enemy_col>>)
                        next_captures ==
                            _get_man_capture_moves(b, land_row, land_col, piece,
                                                   direction, new_captured, original_pos)
                    IN  IF next_captures # <<>>
                        THEN next_captures
                        ELSE <<Move(original_pos, <<land_row, land_col>>, new_captured)>>
                ELSE <<>>

\* GameLogic._get_man_capture_moves: the chains of forward jumps of a Man
_get_man_capture_moves(b, row, col, piece, direction, captured_so_far, original_pos) ==
    ManCaptureDir(b, row, col, piece, direction, captured_so_far, original_pos, -1)
    \o ManCaptureDir(b, row, col, piece, direction, captured_so_far, original_pos, 1)

\* faulty variant of ManQuietDir: the step leaves the column unchanged
ManQuietDir_straight(b, row, col, direction, dc) ==
    LET new_row == row + direction
        new_col == col
    IN  IF is_valid_position(new_row, new_col) /\ get_piece(b, new_row, new_col) = None
        THEN <<Move(<<row, col>>, <<new_row, new_col>>, <<>>)>>
        ELSE <<>>

\* faulty variant of ManQuietDir: the step goes backward
ManQuietDir_backward(b, row, col, direction, dc) ==
    LET new_row == row - direction
        new_col == col + dc
    IN  IF is_valid_position(new_row, new_col) /\ get_piece(b, new_row, new_col) = None
        THEN <<Move(<<row, col>>, <<new_row, new_col>>, <<>>)>>
        ELSE <<>>

\* one iteration (one dc) of the quiet-move loop of _get_man_moves
ManQuietDir(b, row, col, direction, dc) ==
    LET new_row == row + direction
        new_col == col + dc
    IN  IF is_valid_position(new_row, new_col) /\ get_piece(b, new_row, new_col) = None
        THEN <<Move(<<row, col>>, <<new_row, new_col>>, <<>>)>>
        ELSE <<>>

\* GameLogic._get_man_moves
_get_man_moves(b, row, col, piece) ==
    LET direction == IF piece.player = WHITE THEN -1 ELSE 1
        capture_moves ==
            _get_man_capture_moves(b, row, col, piece, direction, <<>>, <<row, col>>)
    IN  IF capture_moves # <<>>
        THEN capture_moves
        ELSE ManQuietDir(b, row, col, direction, -1) \o ManQuietDir(b, row, col, direction, 1)

\* faulty variant of KingScan: a square captured earlier in the chain ends the scan
KingScan_blocked(b, row, col, piece, dr, dc, captured_so_far, distance) ==
    IF distance >= size THEN 0
    ELSE
        LET check_row == row + dr * distance
            check_col == col + dc * distance
        IN  IF ~is_valid_position(check_row, check_col) THEN 0
            ELSE
                LET target == get_piece(b, check_row, check_col)
                IN  IF target # None
                    THEN IF target.player # piece.player
                            /\ ~InList(<<check_row, check_col>>, captured_so_far)
                         THEN distance
                         ELSE 0
                    ELSE KingScan(b, row, col, piece, dr, dc, captured_so_far, distance + 1)

\* the scan loop of _get_king_capture_moves, from `distance` on: the distance of
\* the first opposing piece not yet captured, 0 when the scan ends without one
KingScan(b, row, col, piece, dr, dc, captured_so_far, distance) ==
    IF distance >= size \/ ~is_valid_position(row + dr * distance, col + dc * distance)
    THEN 0
    \* an empty square and a square captured earlier in the chain are passed
    ELSE IF \/ get_piece(b, row + dr * distance, col + dc * distance) = None
            \/ InList(<<row + dr * distance, col + dc * distance>>, captured_so_far)
    THEN KingScan(b, row, col, piece, dr, dc, captured_so_far, distance + 1)
    \* the first piece left: the enemy, or an own piece that ends the scan
    ELSE IF get_piece(b, row + dr * distance, col + dc * distance).player # piece.player
    THEN distance
    ELSE 0

\* faulty variant of KingCaptureDir: the King may also fly one square past the
\* square behind the captured piece
KingCaptureDir_fly_past(b, row, col, piece, captured_so_far, original_pos, dr, dc) ==
    LET enemy_distance == KingScan(b, row, col, piece, dr, dc, captured_so_far, 1)
        enemy_pos == <<row + dr * enemy_distance, col + dc * enemy_distance>>
        new_captured == Append(captured_so_far, enemy_pos)
        landing(land_distance) ==
            LET land_row == row + dr * land_distance
                land_col == col + dc * land_distance
                clear == \A k \in (enemy_distance + 1) .. land_distance :
                             /\ is_valid_position(row + dr * k, col + dc * k)
                             /\ get_piece(b, row + dr * k, col + dc * k) = None
            IN  IF clear
                THEN <<Move(original_pos, <<land_row, land_col>>, new_captured)>>
                ELSE <<>>
    IN  IF enemy_distance = 0 THEN <<>>
        ELSE landing(enemy_distance + 1) \o landing(enemy_distance + 2)

\* faulty variant of KingCaptureDir: the King is taken off its origin square
\* while its chain is enumerated
KingCaptureDir_origin_empty(b, row, col, piece, captured_so_far, original_pos, dr, dc) ==
    LET lifted == [b EXCEPT ![original_pos[1]][original_pos[2]] = None]
        enemy_distance == KingScan(lifted, row, col, piece, dr, dc, captured_so_far, 1)
        enemy_pos == <<row + dr * enemy_distance, col + dc * enemy_distance>>
        land_row == row + dr * (enemy_distance + 1)
        land_col == col + dc * (enemy_distance + 1)
        new_captured == Append(captured_so_far, enemy_pos)
        next_captures == _get_king_capture_moves(b, land_row, land_col, piece,
                                                 new_captured, original_pos)
    IN  IF enemy_distance = 0 THEN <<>>
        ELSE IF is_valid_position(land_row, land_col)
                /\ get_piece(lifted, land_row, land_col) = None
        THEN IF next_captures # <<>>
             THEN next_captures
             ELSE <<Move(original_pos, <<land_row, land_col>>, new_captured)>>
        ELSE <<>>

\* one iteration (one dr, dc) of the direction loops of _get_king_capture_moves
KingCaptureDir(b, row, col, piece, captured_so_far, original_pos, dr, dc) ==
    LET enemy_distance == KingScan(b, row, col, piece, dr, dc, captured_so_far, 1)
    IN  IF enemy_distance = 0 THEN <<>>
        ELSE
            LET enemy_pos == <<row + dr * enemy_distance, col + dc * enemy_distance>>
                land_distance == enemy_distance + 1
                land_row == row + dr * land_distance
                land_col == col + dc * land_distance
            IN  IF is_valid_position(land_row, land_col)
                   /\ get_piece(b, land_row, land_col) = None
                THEN
                    LET new_captured == Append(captured_so_far, enemy_pos)
                        next_captures ==
                            _get_king_capture_moves(b, land_row, land_col, piece,
                                                    new_captured, original_pos)
                    IN  IF next_captures # <<>>
                        THEN next_captures
                        ELSE <<Move(original_pos, <<land_row, land_col>>, new_captured)>>
                ELSE <<>>

\* GameLogic._get_king_capture_moves: the capture chains of a flying King
_get_king_capture_moves(b, row, col, piece, captured_so_far, original_pos) ==
    KingCaptureDir(b, row, col, piece, captured_so_far, original_pos, -1, -1)
    \o KingCaptureDir(b, row, col, piece, captured_so_far, original_pos, -1, 1)
    \o KingCaptureDir(b, row, col, piece, captured_so_far, original_pos, 1, -1)
    \o KingCaptureDir(b, row, col, piece, captured_so_far, original_pos, 1, 1)

\* faulty variant of KingQuietDir: the King slides one square only
KingQuietDir_one_step(b, row, col, dr, dc, distance) ==
    LET new_row == row + dr * distance
        new_col == col + dc * distance
    IN  IF distance = 1 /\ is_valid_position(new_row, new_col)
           /\ get_piece(b, new_row, new_col) = None
        THEN <<Move(<<row, col>>, <<new_row, new_col>>, <<>>)>>
        ELSE <<>>

RECURSIVE KingQuietDir(_, _, _, _, _, _)
\* the distance loop of the quiet moves of _get_king_moves, from `distance` on
KingQuietDir(b, row, col, dr, dc, distance) ==
    IF distance >= size THEN <<>>
    ELSE
        LET new_row == row + dr * distance
            new_col == col + dc * distance
        IN  IF ~is_valid_position(new_row, new_col) THEN <<>>
            ELSE IF get_piece(b, new_row, new_col) = None
            THEN <<Move(<<row, col>>, <<new_row, new_col>>, <<>>)>>
                 \o KingQuietDir(b, row, col, dr, dc, distance + 1)
            ELSE <<>>

\* GameLogic._get_king_moves
_get_king_moves(b, row, col, piece) ==
    LET capture_moves == _get_king_capture_moves(b, row, col, piece, <<>>, <<row, col>>)
    IN  IF capture_moves # <<>>
        THEN capture_moves
        ELSE KingQuietDir(b, row, col, -1, -1, 1) \o KingQuietDir(b, row, col, -1, 1, 1)
             \o KingQuietDir(b, row, col, 1, -1, 1) \o KingQuietDir(b, row, col, 1, 1, 1)

\* faulty variant of get_valid_moves: a piece gets no quiet move while another
\* piece of its side can capture
get_valid_moves_side_filtered(b, row, col) ==
    LET piece == get_piece(b, row, col)
        own(r, c) == IF is_king(get_piece(b, r, c))
                     THEN _get_king_moves(b, r, c, get_piece(b, r, c))
                     ELSE _get_man_moves(b, r, c, get_piece(b, r, c))
        pieces == IF piece = None THEN <<>> ELSE get_all_pieces(b, piece.player)
    IN  IF piece = None THEN <<>>
        ELSE IF \E i \in 1 .. Len(pieces) :
                    SelectSeq(own(pieces[i][1], pieces[i][2]), is_capture) # <<>>
        THEN SelectSeq(own(row, col), is_capture)
        ELSE own(row, col)

\* GameLogic.get_valid_moves
get_valid_moves(b, row, col) ==
    LET piece == get_piece(b, row, col)
    IN  IF piece = None THEN <<>>
        ELSE IF is_king(piece) THEN _get_king_moves(b, row, col, piece)
        ELSE _get_man_moves(b, row, col, piece)

RECURSIVE ExtendAll(_, _, _, _)
\* the loop of get_all_valid_moves, all_moves.extend(get_valid_moves(...)) per
\* piece, for the pieces lo..hi of the list: the moves of the first half of
\* them, then those of the second half
ExtendAll(b, pieces, lo, hi) ==
    IF lo > hi THEN <<>>
    ELSE IF lo = hi THEN get_valid_moves(b, pieces[lo][1], pieces[lo][2])
    ELSE ExtendAll(b, pieces, lo, (lo + hi) \div 2)
         \o ExtendAll(b, pieces, (lo + hi) \div 2 + 1, hi)

\* faulty variant of get_all_valid_moves: no mandatory-capture filter
get_all_valid_moves_unfiltered(b, player) == ExtendAll(b, get_all_pieces(b, player), 1, count_pieces(b, player))

RECURSIVE DedupByEndpoints(_, _)
\* the moves from index i on that have no earlier move with the same endpoints
DedupByEndpoints(moves, i) ==
    IF i > Len(moves) THEN <<>>
    ELSE (IF \E j \in 1 .. (i - 1) : /\ moves[j].from_pos = moves[i].from_pos
                                     /\ moves[j].to_pos = moves[i].to_pos
          THEN <<>> ELSE <<moves[i]>>)
         \o DedupByEndpoints(moves, i + 1)

\* faulty variant of get_all_valid_moves: one Move kept per origin and destination
get_all_valid_moves_dedup(b, player) ==
    LET all_moves == ExtendAll(b, get_all_pieces(b, player), 1, count_pieces(b, player))
        capture_moves == SelectSeq(all_moves, is_capture)
    IN  DedupByEndpoints(IF capture_moves # <<>> THEN capture_moves ELSE all_moves, 1)

\* GameLogic.get_all_valid_moves: the per-piece moves, captures only if any
get_all_valid_moves(b, player) ==
    Only({ LET capture_moves == SelectSeq(all_moves, is_capture)
           IN  IF capture_moves # <<>> THEN capture_moves ELSE all_moves :
           all_moves \in {ExtendAll(b, get_all_pieces(b, player), 1,
                                    count_pieces(b, player))} })

-----------------------------------------------------------------------------
(* game_logic.py: GameLogic, move application and game end *)

RECURSIVE RemoveCaptured(_, _, _)
\* the loop of execute_move over move.captured_pieces
RemoveCaptured(b, captured_pieces, i) ==
    IF i > Len(captured_pieces) THEN b
    ELSE RemoveCaptured(remove_piece(b, captured_pieces[i][1], captured_pieces[i][2]),
                        captured_pieces, i + 1)

\* faulty variant of execute_move: only the first captured piece is removed
execute_move_first_capture(b, move) ==
    LET moved == move_piece(b, move.from_pos[1], move.from_pos[2],
                            move.to_pos[1], move.to_pos[2])
    IN  IF move.captured_pieces = <<>> THEN moved
        ELSE remove_piece(moved, move.captured_pieces[1][1], move.captured_pieces[1][2])

\* GameLogic.execute_move: the board afterwards (the call returns True)
execute_move(b, move) ==
    RemoveCaptured(move_piece(b, move.from_pos[1], move.from_pos[2],
                              move.to_pos[1], move.to_pos[2]),
                   move.captured_pieces, 1)

\* GameLogic.execute_move: the value it returns
execute_move_result(b, move) == TRUE

\* faulty variant of is_game_over: the side without pieces is named the winner
is_game_over_loser_wins(b) ==
    IF count_pieces(b, WHITE) = 0 THEN <<TRUE, WHITE>>
    ELSE IF count_pieces(b, BLACK) = 0 THEN <<TRUE, BLACK>>
    ELSE IF get_all_valid_moves(b, WHITE) = <<>> THEN <<TRUE, BLACK>>
    ELSE IF get_all_valid_moves(b, BLACK) = <<>> THEN <<TRUE, WHITE>>
    ELSE <<FALSE, "NONE">>

\* faulty variant of is_game_over: the moves of the sides are not looked at
is_game_over_pieces_only(b) ==
    IF count_pieces(b, WHITE) = 0 THEN <<TRUE, BLACK>>
    ELSE IF count_pieces(b, BLACK) = 0 THEN <<TRUE, WHITE>>
    ELSE <<FALSE, "NONE">>

\* faulty variant of is_game_over: only WHITE's moves are looked at
is_game_over_white_only(b) ==
    IF count_pieces(b, WHITE) = 0 THEN <<TRUE, BLACK>>
    ELSE IF count_pieces(b, BLACK) = 0 THEN <<TRUE, WHITE>>
    ELSE IF get_all_valid_moves(b, WHITE) = <<>> THEN <<TRUE, BLACK>>
    ELSE <<FALSE, "NONE">>

\* GameLogic.is_game_over: <<game_over, winner>>, winner "NONE" for None
is_game_over(b) ==
    IF count_pieces(b, WHITE) = 0 THEN <<TRUE, BLACK>>
    ELSE IF count_pieces(b, BLACK) = 0 THEN <<TRUE, WHITE>>
    ELSE IF get_all_valid_moves(b, WHITE) = <<>> THEN <<TRUE, BLACK>>
    ELSE IF get_all_valid_moves(b, BLACK) = <<>> THEN <<TRUE, WHITE>>
    ELSE <<FALSE, "NONE">>

-----------------------------------------------------------------------------
(* Play from the initial position *)

\* "no move yet" for the history variable
NoMove == Move(<<-1, -1>>, <<-1, -1>>, <<>>)

\* "no search yet" and "no accessor call yet" for the history variables
NoSearch == [name |-> "NONE"]
NoCall == [name |-> "NONE"]

\* None where a square, and where a move notation, is expected
NoPos == <<-1, -1>>
NoNotation == <<0, 0>>

\* the fields of the front ends when `owner` has been constructed: CLI.__init__,
\* GUI.__init__; the env and the engine have none of them
Constructed(owner) ==
    /\ ui = owner
    /\ winner = "NONE"
    /\ ai_enabled = (owner \in {"CLI", "GUI"})
    /\ selected_pos = NoPos
    /\ valid_moves = <<>>
    /\ move_log = <<>>
    /\ current_round_white_move = NoNotation
    /\ history = <<>>
    /\ trail = <<>>

\* no front end is followed
NoFrontEnd == Constructed("NONE")

Init ==
    /\ board = setup_initial_position
    /\ current_player = WHITE
    /\ ply = 0
    /\ prev_board = setup_initial_position
    /\ last_move = NoMove
    /\ last_ok = TRUE
    /\ done = FALSE
    /\ best = NoSearch
    /\ call = NoCall
    /\ _valid_moves = <<>>
    /\ NoFrontEnd

\* one turn as every caller plays it (ThaiCheckerEnv.step, CLI.play_turn): a move
\* of get_all_valid_moves is executed and the side to move is switched
PlayMove(bound) ==
    /\ ply < bound
    /\ ~is_game_over(board)[1]
    /\ LET moves == get_all_valid_moves(board, current_player)
       IN  \E i \in 1 .. Len(moves) :
               /\ board' = execute_move(board, moves[i])
               /\ last_move' = moves[i]
    /\ prev_board' = board
    /\ last_ok' = execute_move_result(board, last_move')
    /\ current_player' = Opponent(current_player)
    /\ done' = is_game_over(board')[1]
    /\ ply' = ply + 1
    /\ UNCHANGED <<best, call, _valid_moves>>
    /\ UNCHANGED front

Play == PlayMove(MaxPly)

Next == Play

Spec == Init /\ [][Next]_vars

-----------------------------------------------------------------------------
(* Play continued from mid-game positions: Kings, chains of several jumps, *)
(* promotions, blocked sides                                               *)

RECURSIVE PlaceAll(_, _, _)
\* a board filled with Board.set_piece from a list of <<row, col, player, type>>
PlaceAll(b, placed, i) ==
    IF i > Len(placed) THEN b
    ELSE PlaceAll(set_piece(b, placed[i][1], placed[i][2],
                            Piece(placed[i][3], placed[i][4])),
                  placed, i + 1)

SetUp(placed) == PlaceAll(EmptyBoard, placed, 1)

\* Positions reached in games played from the initial position by moves of
\* get_all_valid_moves, each with the side to move in it.
MidGames ==
    { \* a King whose chain scans back over a piece it has captured
      [to_move |-> BLACK, placed |-> << <<2, 3, WHITE, MAN>>, <<4, 3, WHITE, MAN>>,
          <<5, 6, WHITE, MAN>>, <<7, 0, BLACK, KING>> >>],
      [to_move |-> WHITE, placed |-> << <<2, 1, BLACK, MAN>>, <<6, 3, BLACK, MAN>>,
          <<6, 5, BLACK, KING>>, <<7, 2, WHITE, KING>> >>],
      \* two chains of one King with the same landing square
      [to_move |-> BLACK, placed |-> << <<2, 3, WHITE, KING>>, <<3, 2, WHITE, MAN>>,
          <<5, 2, WHITE, MAN>>, <<5, 4, WHITE, MAN>>, <<5, 6, WHITE, MAN>>,
          <<6, 1, BLACK, KING>> >>],
      [to_move |-> WHITE, placed |-> << <<1, 0, WHITE, KING>>, <<1, 4, BLACK, KING>>,
          <<3, 2, BLACK, MAN>>, <<3, 4, BLACK, MAN>>, <<6, 1, BLACK, MAN>> >>],
      \* two chains of one Man with the same landing square
      [to_move |-> BLACK, placed |-> << <<1, 2, BLACK, MAN>>, <<1, 6, BLACK, MAN>>,
          <<2, 3, BLACK, MAN>>, <<3, 2, BLACK, MAN>>, <<4, 1, WHITE, MAN>>,
          <<4, 3, WHITE, MAN>>, <<5, 6, WHITE, MAN>>, <<6, 1, WHITE, MAN>>,
          <<6, 3, WHITE, MAN>>, <<6, 5, WHITE, MAN>> >>],
      [to_move |-> WHITE, placed |-> << <<0, 1, BLACK, MAN>>, <<1, 0, WHITE, MAN>>,
          <<1, 4, BLACK, MAN>>, <<1, 6, BLACK, MAN>>, <<3, 4, BLACK, MAN>>,
          <<3, 6, BLACK, MAN>>, <<4, 1, WHITE, MAN>>, <<4, 5, WHITE, MAN>>,
          <<5, 4, WHITE, MAN>>, <<7, 0, WHITE, MAN>>, <<7, 6, WHITE, MAN>> >>],
      \* the side to move has pieces and no move
      [to_move |-> BLACK, placed |-> << <<6, 7, BLACK, MAN>>, <<7, 6, WHITE, KING>> >>],
      [to_move |-> WHITE, placed |-> << <<0, 1, BLACK, KING>>, <<1, 0, WHITE, MAN>> >>],
      \* one piece can capture, another has only quiet moves
      [to_move |-> BLACK, placed |-> << <<3, 6, WHITE, KING>>, <<5, 2, BLACK, MAN>>,
          <<6, 3, BLACK, KING>> >>],
      [to_move |-> WHITE, placed |-> << <<3, 6, WHITE, MAN>>, <<4, 1, BLACK, MAN>>,
          <<5, 2, WHITE, KING>> >>],
      \* King chains of two and three jumps
      [to_move |-> BLACK, placed |-> << <<3, 2, BLACK, KING>>, <<4, 3, WHITE, MAN>>,
          <<6, 3, WHITE, MAN>> >>],
      [to_move |-> WHITE, placed |-> << <<0, 3, WHITE, KING>>, <<2, 1, BLACK, MAN>>,
          <<5, 2, BLACK, MAN>> >>],
      [to_move |-> BLACK, placed |-> << <<3, 2, WHITE, MAN>>, <<5, 6, WHITE, MAN>>,
          <<6, 1, WHITE, MAN>>, <<7, 2, BLACK, KING>> >>],
      [to_move |-> WHITE, placed |-> << <<0, 5, WHITE, KING>>, <<1, 6, BLACK, MAN>>,
          <<5, 2, BLACK, MAN>>, <<5, 4, BLACK, MAN>> >>],
      \* Man chains of two and three jumps
      [to_move |-> BLACK, placed |-> << <<2, 7, BLACK, MAN>>, <<3, 6, WHITE, MAN>>,
          <<5, 4, WHITE, MAN>> >>],
      [to_move |-> WHITE, placed |-> << <<4, 1, BLACK, MAN>>, <<4, 3, WHITE, KING>>,
          <<6, 1, BLACK, MAN>>, <<7, 0, WHITE, MAN>> >>],
      [to_move |-> BLACK, placed |-> << <<0, 7, BLACK, MAN>>, <<1, 4, BLACK, MAN>>,
          <<1, 6, WHITE, MAN>>, <<3, 2, BLACK, MAN>>, <<3, 4, WHITE, MAN>>,
          <<5, 2, BLACK, MAN>>, <<5, 4, WHITE, MAN>>, <<7, 0, WHITE, MAN>> >>],
      [to_move |-> WHITE, placed |-> << <<1, 2, BLACK, MAN>>, <<2, 5, BLACK, MAN>>,
          <<2, 7, BLACK, MAN>>, <<3, 0, WHITE, MAN>>, <<4, 3, BLACK, MAN>>,
          <<5, 6, WHITE, MAN>>, <<6, 1, BLACK, MAN>>, <<7, 0, WHITE, MAN>> >>],
      \* a Man one move from its far row
      [to_move |-> BLACK, placed |-> << <<2, 3, WHITE, KING>>, <<6, 7, BLACK, MAN>> >>],
      [to_move |-> BLACK, placed |-> << <<5, 0, BLACK, MAN>>, <<6, 1, WHITE, KING>> >>],
      [to_move |-> WHITE, placed |-> << <<1, 2, BLACK, KING>>, <<2, 1, WHITE, MAN>>,
          <<5, 2, WHITE, KING>> >>] }

InitMid ==
    /\ \E g \in MidGames :
           /\ board = SetUp(g.placed)
           /\ current_player = g.to_move
    /\ ply = 0
    /\ prev_board = board
    /\ last_move = NoMove
    /\ last_ok = TRUE
    /\ done = FALSE
    /\ best = NoSearch
    /\ call = NoCall
    /\ _valid_moves = <<>>
    /\ NoFrontEnd

PlayMid == PlayMove(MaxMidPly)

NextMid == PlayMid

SpecMid == InitMid /\ [][NextMid]_vars

-----------------------------------------------------------------------------
(* execute_move called directly, with any Move: no caller's check before it *)

RawFrom == {<<6, 1>>, <<5, 0>>, <<1, 0>>}
RawTo == {<<5, 0>>, <<5, 1>>, <<4, 1>>, <<6, 1>>, <<8, 1>>}
RawCaptured == {<<>>, << <<7, 0>> >>, << <<0, 1>>, <<1, 2>> >>}

\* the Moves handed to execute_move: legal ones and illegal ones
RawMoves == {Move(f, t, c) : f \in RawFrom, t \in RawTo, c \in RawCaptured}

\* GameLogic.execute_move(board, move) for an arbitrary Move
ExecuteRaw ==
    /\ ply < MaxRawPly
    /\ \E m \in RawMoves :
           /\ board' = execute_move(board, m)
           /\ last_move' = m
           /\ last_ok' = execute_move_result(board, m)
    /\ prev_board' = board
    /\ ply' = ply + 1
    /\ UNCHANGED <<current_player, done, best, call, _valid_moves>>
    /\ UNCHANGED front

PlayRaw == PlayMove(MaxRawPly)

NextRaw == PlayRaw \/ ExecuteRaw

SpecRaw == Init /\ [][NextRaw]_vars

-----------------------------------------------------------------------------
(* Play to the end: positions late in games of few pieces, from which a     *)
(* side loses its last piece or is left without a move within a few plies;  *)
(* ThaiCheckerEnv.reset starts a new episode at any time                    *)

\* plies played on from a late position
MaxEndPly == 3

EndGames ==
    { [to_move |-> BLACK, placed |-> << <<1, 0, WHITE, KING>>, <<5, 6, BLACK, MAN>> >>],
      [to_move |-> WHITE, placed |-> << <<0, 1, BLACK, MAN>>, <<1, 0, WHITE, MAN>>,
          <<4, 5, BLACK, MAN>>, <<6, 7, WHITE, MAN>> >>],
      [to_move |-> BLACK, placed |-> << <<2, 1, WHITE, MAN>>, <<4, 5, BLACK, KING>> >>],
      [to_move |-> WHITE, placed |-> << <<4, 1, WHITE, KING>>, <<4, 3, WHITE, MAN>>,
          <<5, 6, BLACK, MAN>>, <<7, 6, WHITE, MAN>> >>],
      [to_move |-> WHITE, placed |-> << <<1, 2, BLACK, KING>>, <<4, 7, BLACK, MAN>>,
          <<6, 5, WHITE, KING>> >>],
      [to_move |-> WHITE, placed |-> << <<5, 0, WHITE, KING>>, <<5, 2, WHITE, MAN>>,
          <<6, 3, BLACK, KING>>, <<7, 6, BLACK, KING>> >>],
      [to_move |-> BLACK, placed |-> << <<2, 7, BLACK, MAN>>, <<4, 7, WHITE, MAN>>,
          <<6, 3, WHITE, KING>> >>],
      [to_move |-> BLACK, placed |-> << <<2, 1, BLACK, MAN>>, <<3, 0, BLACK, MAN>>,
          <<4, 3, WHITE, KING>>, <<5, 0, WHITE, MAN>> >>],
      [to_move |-> BLACK, placed |-> << <<3, 0, BLACK, MAN>>, <<3, 2, WHITE, KING>> >>],
      [to_move |-> WHITE, placed |-> << <<3, 4, WHITE, KING>>, <<7, 4, BLACK, KING>> >>] }

InitEnd ==
    /\ \E g \in EndGames :
           /\ board = SetUp(g.placed)
           /\ current_player = g.to_move
    /\ ply = 0
    /\ prev_board = board
    /\ last_move = NoMove
    /\ last_ok = TRUE
    /\ done = FALSE
    /\ best = NoSearch
    /\ call = NoCall
    /\ _valid_moves = <<>>
    /\ NoFrontEnd

PlayEnd == PlayMove(MaxEndPly)

\* faulty variant of reset: the side to move is left as it was
reset_keep_player(player) == player

\* the side to move after ThaiCheckerEnv.reset
reset_player(player) == WHITE

\* ThaiCheckerEnv.reset: a new Board, WHITE to move, not done
Reset ==
    /\ ply < MaxEndPly
    /\ board' = setup_initial_position
    /\ current_player' = reset_player(current_player)
    /\ done' = FALSE
    /\ prev_board' = board
    /\ last_move' = NoMove
    /\ ply' = ply + 1
    /\ UNCHANGED <<last_ok, best, call, _valid_moves>>
    /\ UNCHANGED front

NextEnd == PlayEnd \/ Reset

SpecEnd == InitEnd /\ [][NextEnd]_vars

-----------------------------------------------------------------------------
(* ai_minimax.py: evaluate, minimax, get_best_move.                         *)
(* Board objects live in a store, a sequence of grids; a reference to a     *)
(* Board is its index in the store, and execute_move on a reference changes *)
(* the grid stored there.                                                   *)
(* A float score is kept as one integer that orders as the float does:      *)
(* Float(t, e) stands for the double t/10 + e * 2^-56 / 10, the number of   *)
(* tenths t and the rounding error e the float arithmetic has left on it.   *)

\* more than twice the largest rounding error of a score
FloatUnit == 16384

Float(t, e) == t * FloatUnit + e

\* math.inf
inf == 2000000000

Max(a, b) == IF a >= b THEN a ELSE b
Min(a, b) == IF a <= b THEN a ELSE b

Signum(x) == IF x > 0 THEN 1 ELSE IF x < 0 THEN -1 ELSE 0

Pow2(n) == IF n <= 0 THEN 1 ELSE 2 ^ n

\* the low bits of the double 0.1 = 7205759403792794 * 2^-56 (ten times it is
\* 2^56 + 4)
TenthLowBits == 2458

\* the number of low bits (of weight 2^-56 each) a double cannot hold of a
\* magnitude of T tenths; at_least tells on which side of T tenths it lies
DroppedBits(T, at_least) ==
    LET fits == {q \in -10 .. 11 :
                    \/ 16 * T * 1024 > 10 * Pow2(q + 10)
                    \/ 16 * T * 1024 = 10 * Pow2(q + 10) /\ at_least}
    IN  CHOOSE q \in fits : \A p \in fits : p <= q

\* round to nearest, ties to even: what is added to a magnitude that is `low`
\* modulo 2^(q+1) to make it a multiple of 2^q
RoundEven(low, q) ==
    IF q <= 0 THEN 0
    ELSE LET rem == low % Pow2(q)
             bit == (low \div Pow2(q)) % 2
             half == Pow2(q - 1)
         IN  IF rem > half \/ (rem = half /\ bit = 1) THEN Pow2(q) - rem ELSE -rem

\* the rounding error, in units of 2^-56 / 10, of the float expression
\* x2 * 0.5 + n * 0.1: the product is rounded, then the sum
FloatError(x2, n) ==
    LET a == IF n < 0 THEN -n ELSE n
        k == DroppedBits(a, TRUE)
        delta == IF a = 0 THEN 0
                 ELSE RoundEven((a * (TenthLowBits % Pow2(k + 1))) % Pow2(k + 1), k)
        product_error == Signum(n) * (4 * a + 10 * delta)
        t == 5 * x2 + n
        s == Signum(t)
        q == DroppedBits(s * t, s * product_error >= 0)
        product_low == (a * (TenthLowBits % Pow2(q + 1)) + delta) % Pow2(q + 1)
        low == (s * Signum(n) * product_low) % Pow2(q + 1)
    IN  IF t = 0 THEN product_error
        ELSE IF q <= 0 THEN product_error
        ELSE product_error + s * 10 * RoundEven(low, q)

\* faulty variant of deepcopy: the same object under a second name
deepcopy_alias(store, ref) == [store |-> store, ref |-> ref]

\* copy.deepcopy(board): a new Board object with the same contents
deepcopy(store, ref) == [store |-> Append(store, store[ref]), ref |-> Len(store) + 1]

RECURSIVE PieceScore_king_bonus(_, _, _, _)
\* faulty variant of PieceScore: a King gets the bonus for advanced rows too
PieceScore_king_bonus(b, player, pieces, i) ==
    IF i > Len(pieces) THEN 0
    ELSE LET row == pieces[i][1]
             piece == get_piece(b, row, pieces[i][2])
             advanced_rows == IF player = WHITE THEN 7 - row ELSE row
         IN  (IF is_king(piece) THEN 30 + advanced_rows * 5 ELSE 10 + advanced_rows * 5)
             + PieceScore_king_bonus(b, player, pieces, i + 1)

RECURSIVE PieceScore(_, _, _, _)
\* the loop of evaluate over board.get_all_pieces(player), in tenths: 3.0 a
\* King, 1.0 a Man plus 0.5 for every row it has advanced
PieceScore(b, player, pieces, i) ==
    IF i > Len(pieces) THEN 0
    ELSE LET row == pieces[i][1]
             piece == get_piece(b, row, pieces[i][2])
             advanced_rows == IF player = WHITE THEN 7 - row ELSE row
         IN  (IF is_king(piece) THEN 30 ELSE 10 + advanced_rows * 5)
             + PieceScore(b, player, pieces, i + 1)


\* evaluate(board, ai_player): ai_score - opp_score + mobility
evaluate(b, ai_player) ==
    Only({ Only({ Float(5 * halves + moves, FloatError(halves, moves)) :
                  halves \in {(ai_score - opp_score) \div 5},
                  moves \in {ai_moves - opp_moves} }) :
           ai_score \in {PieceScore(b, ai_player, get_all_pieces(b, ai_player), 1)},
           opp_score \in {PieceScore(b, Opponent(ai_player),
                                     get_all_pieces(b, Opponent(ai_player)), 1)},
           ai_moves \in {Len(get_all_valid_moves(b, ai_player))},
           opp_moves \in {Len(get_all_valid_moves(b, Opponent(ai_player)))} })

\* faulty variant of AtDepthLimit: the search stops one ply late
AtDepthLimit_late(depth) == depth = -1

\* minimax's test "if depth == 0"
AtDepthLimit(depth) == depth = 0

\* what a search has done so far: the lowest depth argument any minimax call
\* got, the deepest ply below the root a call was made at, the number of calls,
\* the number of calls that returned through "if not moves" (fallbacks) and
\* through the "else" of the winner test (draws)
Seen(low, deep, nodes) ==
    [low |-> low, deep |-> deep, nodes |-> nodes, fallbacks |-> 0, draws |-> 0]

Merge(s, t) ==
    [low |-> Min(s.low, t.low), deep |-> Max(s.deep, t.deep), nodes |-> s.nodes + t.nodes,
     fallbacks |-> s.fallbacks + t.fallbacks, draws |-> s.draws + t.draws]

RECURSIVE minimax(_, _, _, _, _, _, _, _)
RECURSIVE minimax_of_child(_, _, _, _, _, _, _)
RECURSIVE minimax_not_over(_, _, _, _, _, _, _, _, _)
RECURSIVE minimax_after_test(_, _, _, _, _, _, _, _, _)
RECURSIVE MaxLoop(_, _, _, _, _, _, _, _, _)
RECURSIVE MinLoop(_, _, _, _, _, _, _, _, _)

\* child = copy.deepcopy(board); GameLogic.execute_move(child, move)
MovedCopy(store, ref, move) ==
    Only({ [store |-> [child.store EXCEPT ![child.ref] = execute_move(@, move)],
            ref |-> child.ref] : child \in {deepcopy(store, ref)} })

\* minimax(child, depth, alpha, beta, maximizing, ai_player) for the child
\* object MovedCopy has made
minimax_of_child(child, depth, alpha, beta, maximizing, ai_player, level) ==
    minimax(child.store, child.ref, depth, alpha, beta, maximizing, ai_player, level)

\* faulty variant of MaxStep: the loop ends at the first move that raises alpha
MaxStep_cut_on_raise(prev, ref, move, depth, beta, ai_player, level) ==
    Only({
        [val |-> Max(prev.val, r.val),
         alpha |-> Max(prev.alpha, r.val),
         store |-> SubSeq(r.store, 1, Len(prev.store)),
         seen |-> Merge(prev.seen, r.seen),
         cut |-> Max(prev.alpha, r.val) > prev.alpha] :
        r \in {minimax_of_child(MovedCopy(prev.store, ref, move), depth - 1, prev.alpha,
                                beta, FALSE, ai_player, level + 1)} })

\* one pass of the maximizing loop of minimax, for `move`, from the state
\* `prev` the passes before it have left: max_eval (val), alpha, the store,
\* what the search has done, and whether the loop has been left (cut)
MaxStep(prev, ref, move, depth, beta, ai_player, level) ==
    Only({
        [val |-> Max(prev.val, r.val),
         alpha |-> Max(prev.alpha, r.val),
         \* the child is dropped at the end of the pass
         store |-> SubSeq(r.store, 1, Len(prev.store)),
         seen |-> Merge(prev.seen, r.seen),
         cut |-> beta <= Max(prev.alpha, r.val)] :
        r \in {minimax_of_child(MovedCopy(prev.store, ref, move), depth - 1, prev.alpha,
                                beta, FALSE, ai_player, level + 1)} })

\* the state of the maximizing loop before its first pass
MaxStart(store, alpha, seen) ==
    [val |-> -inf, alpha |-> alpha, store |-> store, seen |-> seen, cut |-> FALSE]

\* the passes of the maximizing loop of minimax for the moves lo..hi, in
\* order, from the state `prev` the passes before them have left: those of
\* the first half of lo..hi, then those of the second half; no pass is made
\* once the loop has been left
MaxLoop(prev, ref, moves, lo, hi, depth, beta, ai_player, level) ==
    IF prev.cut \/ lo > hi THEN prev
    ELSE IF lo = hi THEN MaxStep(prev, ref, moves[lo], depth, beta, ai_player, level)
    ELSE MaxLoop(MaxLoop(prev, ref, moves, lo, (lo + hi) \div 2, depth, beta, ai_player,
                         level),
                 ref, moves, (lo + hi) \div 2 + 1, hi, depth, beta, ai_player, level)

\* one pass of the minimizing loop of minimax, for `move`, from the state
\* `prev` the passes before it have left: min_eval (val), beta, the store,
\* what the search has done, and whether the loop has been left (cut)
MinStep(prev, ref, move, depth, alpha, ai_player, level) ==
    Only({
        [val |-> Min(prev.val, r.val),
         beta |-> Min(prev.beta, r.val),
         store |-> SubSeq(r.store, 1, Len(prev.store)),
         seen |-> Merge(prev.seen, r.seen),
         cut |-> Min(prev.beta, r.val) <= alpha] :
        r \in {minimax_of_child(MovedCopy(prev.store, ref, move), depth - 1, alpha,
                                prev.beta, TRUE, ai_player, level + 1)} })

\* the state of the minimizing loop before its first pass
MinStart(store, beta, seen) ==
    [val |-> inf, beta |-> beta, store |-> store, seen |-> seen, cut |-> FALSE]

\* the passes of the minimizing loop of minimax for the moves lo..hi, in
\* order, from the state `prev` the passes before them have left
MinLoop(prev, ref, moves, lo, hi, depth, alpha, ai_player, level) ==
    IF prev.cut \/ lo > hi THEN prev
    ELSE IF lo = hi THEN MinStep(prev, ref, moves[lo], depth, alpha, ai_player, level)
    ELSE MinLoop(MinLoop(prev, ref, moves, lo, (lo + hi) \div 2, depth, alpha, ai_player,
                         level),
                 ref, moves, (lo + hi) \div 2 + 1, hi, depth, alpha, ai_player, level)

\* minimax from "moves = GameLogic.get_all_valid_moves(board, current_player)"
\* on, `moves` being that list
minimax_not_over(store, ref, depth, alpha, beta, maximizing, ai_player, level, moves) ==
    IF moves = <<>>
    THEN [val |-> evaluate(store[ref], ai_player), store |-> store,
          seen |-> [Seen(depth, level, 1) EXCEPT !.fallbacks = 1]]
    ELSE IF maximizing
    THEN MaxLoop(MaxStart(store, alpha, Seen(depth, level, 1)), ref, moves, 1, Len(moves),
                 depth, beta, ai_player, level)
    ELSE MinLoop(MinStart(store, beta, Seen(depth, level, 1)), ref, moves, 1, Len(moves),
                 depth, alpha, ai_player, level)

\* minimax from "if game_over" on, `over` being what is_game_over has returned
minimax_after_test(store, ref, depth, alpha, beta, maximizing, ai_player, level, over) ==
    LET opponent == Opponent(ai_player)
        player == IF maximizing THEN ai_player ELSE opponent
        leaf(v) == [val |-> v, store |-> store, seen |-> Seen(depth, level, 1)]
    IN  IF over[1]
        THEN IF over[2] = ai_player THEN leaf(Float(10000 + 10 * depth, 0))
             ELSE IF over[2] = opponent THEN leaf(Float(-10000 - 10 * depth, 0))
             ELSE [leaf(Float(0, 0)) EXCEPT !.seen.draws = 1]
        ELSE IF AtDepthLimit(depth) THEN leaf(evaluate(store[ref], ai_player))
        ELSE minimax_not_over(store, ref, depth, alpha, beta, maximizing, ai_player, level,
                              get_all_valid_moves(store[ref], player))

\* faulty variant of minimax: the depth is tested before the end of the game
minimax_depth_test_first(store, ref, depth, alpha, beta, maximizing, ai_player, level) ==
    IF AtDepthLimit(depth)
    THEN [val |-> evaluate(store[ref], ai_player), store |-> store,
          seen |-> Seen(depth, level, 1)]
    ELSE minimax_after_test(store, ref, depth, alpha, beta, maximizing, ai_player, level,
                            is_game_over(store[ref]))

\* minimax(board, depth, alpha, beta, maximizing, ai_player), called `level`
\* plies below the root: its value, the store it leaves, what it has done
minimax(store, ref, depth, alpha, beta, maximizing, ai_player, level) ==
    minimax_after_test(store, ref, depth, alpha, beta, maximizing, ai_player, level,
                       is_game_over(store[ref]))

\* faulty variant of Better: a move as good as the best so far replaces it
Better_or_equal(val, best_val) == val >= best_val

\* faulty variant of Better: the comparison the wrong way round
Better_reversed(val, best_val) == val < best_val

\* get_best_move's test "if val > best_val"
Better(val, best_val) == val > best_val

\* one pass of the loop of get_best_move, for `move`, from the state `prev`
\* the passes before it have left: best_move, best_val (val), the store, what
\* the search has done
BestStep(prev, ref, move, player, depth) ==
    Only({
        [move |-> IF Better(r.val, prev.val) THEN move ELSE prev.move,
         val |-> IF Better(r.val, prev.val) THEN r.val ELSE prev.val,
         store |-> SubSeq(r.store, 1, Len(prev.store)),
         seen |-> Merge(prev.seen, r.seen)] :
        r \in {minimax_of_child(MovedCopy(prev.store, ref, move), depth - 1, -inf, inf,
                                FALSE, player, 1)} })

\* the state of the loop of get_best_move before its first pass
BestStart(store, seen) == [move |-> NoMove, val |-> -inf, store |-> store, seen |-> seen]

RECURSIVE BestLoop(_, _, _, _, _, _, _)
\* the passes of the loop of get_best_move for the moves lo..hi, in order,
\* from the state `prev` the passes before them have left: those of the first
\* half of lo..hi, then, from the state they leave, those of the second half
BestLoop(prev, ref, moves, lo, hi, player, depth) ==
    IF lo > hi THEN prev
    ELSE IF lo = hi THEN BestStep(prev, ref, moves[lo], player, depth)
    ELSE Only({ BestLoop(half, ref, moves, (lo + hi) \div 2 + 1, hi, player, depth) :
                half \in {BestLoop(prev, ref, moves, lo, (lo + hi) \div 2, player,
                                   depth)} })

\* faulty variant of get_best_move: a single legal move is searched as well
get_best_move_no_shortcut(store, ref, player, depth) ==
    Only({ IF moves = <<>>
           THEN [move |-> NoMove, store |-> store, seen |-> Seen(depth, 0, 0)]
           ELSE BestLoop(BestStart(store, Seen(depth, 0, 0)), ref, moves, 1, Len(moves),
                         player, depth) :
           moves \in {get_all_valid_moves(store[ref], player)} })

\* get_best_move(board, player, depth): the Move returned (NoMove for None), the
\* store it leaves, what the search has done
get_best_move(store, ref, player, depth) ==
    Only({ IF moves = <<>>
           THEN [move |-> NoMove, store |-> store, seen |-> Seen(depth, 0, 0)]
           ELSE IF Len(moves) = 1
           THEN [move |-> moves[1], store |-> store, seen |-> Seen(depth, 0, 0)]
           ELSE BestLoop(BestStart(store, Seen(depth, 0, 0)), ref, moves, 1, Len(moves),
                         player, depth) :
           moves \in {get_all_valid_moves(store[ref], player)} })

-----------------------------------------------------------------------------
(* get_best_move called on boards of played games, for either side: boards  *)
(* where a side has lost its last piece or cannot move, where one capture   *)
(* takes the opponent's last pieces, where a side has a single move, and    *)
(* boards with a choice of several moves                                    *)

\* the largest search depth asked for
MaxDepth == 3

AiGames ==
    { [to_move |-> WHITE, placed |-> << <<1, 4, BLACK, MAN>>, <<4, 7, BLACK, MAN>> >>],
      [to_move |-> BLACK, placed |-> << <<5, 2, WHITE, MAN>>, <<6, 7, WHITE, MAN>> >>],
      [to_move |-> WHITE, placed |-> << <<0, 5, BLACK, MAN>>, <<0, 7, BLACK, MAN>>,
         <<1, 6, WHITE, MAN>>, <<4, 7, BLACK, MAN>>, <<5, 2, BLACK, MAN>>,
         <<7, 4, BLACK, KING>> >>],
      [to_move |-> BLACK, placed |-> << <<0, 7, WHITE, KING>>, <<1, 0, WHITE, MAN>>,
         <<2, 5, WHITE, MAN>>, <<6, 7, BLACK, MAN>>, <<7, 6, WHITE, MAN>> >>],
      [to_move |-> WHITE, placed |-> << <<1, 6, WHITE, KING>>, <<2, 5, WHITE, MAN>>,
         <<3, 4, WHITE, MAN>>, <<4, 1, BLACK, MAN>>, <<5, 0, WHITE, KING>>,
         <<5, 2, WHITE, MAN>>, <<6, 3, WHITE, MAN>>, <<6, 7, WHITE, MAN>> >>],
      [to_move |-> BLACK, placed |-> << <<0, 1, BLACK, MAN>>, <<0, 3, BLACK, MAN>>,
         <<0, 5, BLACK, MAN>>, <<1, 2, WHITE, MAN>>, <<1, 4, BLACK, MAN>>,
         <<2, 5, BLACK, MAN>>, <<6, 5, BLACK, KING>> >>],
      [to_move |-> WHITE, placed |-> << <<2, 1, BLACK, MAN>>, <<3, 6, WHITE, KING>>,
         <<4, 3, BLACK, MAN>>, <<4, 7, WHITE, MAN>>, <<5, 2, WHITE, MAN>>,
         <<6, 5, WHITE, MAN>>, <<6, 7, WHITE, MAN>> >>],
      [to_move |-> BLACK, placed |-> << <<1, 0, BLACK, KING>>, <<1, 2, BLACK, MAN>>,
         <<1, 6, BLACK, MAN>>, <<2, 3, BLACK, MAN>>, <<2, 5, WHITE, MAN>>,
         <<6, 1, BLACK, MAN>> >>],
      [to_move |-> WHITE, placed |-> << <<3, 2, BLACK, MAN>>, <<4, 1, WHITE, MAN>>,
         <<5, 0, WHITE, MAN>>, <<5, 4, WHITE, KING>>, <<6, 5, WHITE, MAN>>,
         <<6, 7, WHITE, MAN>>, <<7, 0, WHITE, MAN>> >>],
      [to_move |-> WHITE, placed |-> << <<1, 0, WHITE, MAN>>, <<3, 0, WHITE, MAN>>,
         <<3, 2, WHITE, KING>>, <<4, 3, BLACK, MAN>>, <<4, 7, WHITE, MAN>>,
         <<5, 2, WHITE, MAN>>, <<6, 7, WHITE, MAN>>, <<7, 0, WHITE, MAN>>,
         <<7, 4, WHITE, MAN>> >>],
      [to_move |-> BLACK, placed |-> << <<1, 0, BLACK, MAN>>, <<1, 2, BLACK, MAN>>,
         <<1, 4, BLACK, MAN>>, <<2, 1, WHITE, MAN>>, <<4, 3, BLACK, MAN>>,
         <<4, 5, BLACK, MAN>>, <<6, 3, BLACK, MAN>>, <<6, 7, BLACK, MAN>> >>],
      [to_move |-> BLACK, placed |-> << <<1, 2, BLACK, MAN>>, <<2, 3, BLACK, MAN>>,
         <<3, 2, WHITE, MAN>>, <<4, 7, BLACK, MAN>>, <<6, 5, BLACK, KING>> >>],
      [to_move |-> WHITE, placed |-> << <<1, 6, BLACK, MAN>>, <<2, 1, WHITE, MAN>>,
         <<2, 3, WHITE, KING>>, <<3, 6, BLACK, MAN>>, <<4, 3, WHITE, MAN>>,
         <<4, 5, WHITE, MAN>>, <<4, 7, WHITE, MAN>>, <<7, 4, WHITE, MAN>> >>],
      [to_move |-> BLACK, placed |-> << <<0, 5, BLACK, MAN>>, <<0, 7, BLACK, MAN>>,
         <<1, 0, BLACK, MAN>>, <<2, 1, BLACK, MAN>>, <<2, 3, BLACK, MAN>>,
         <<3, 2, WHITE, MAN>>, <<4, 7, BLACK, KING>>, <<5, 2, WHITE, MAN>> >>],
      [to_move |-> WHITE, placed |-> << <<1, 4, BLACK, MAN>>, <<2, 5, BLACK, MAN>>,
         <<3, 2, BLACK, MAN>>, <<4, 5, WHITE, MAN>>, <<6, 3, WHITE, MAN>>,
         <<7, 2, BLACK, KING>> >>],
      [to_move |-> WHITE, placed |-> << <<0, 5, WHITE, KING>>, <<1, 0, BLACK, MAN>>,
         <<3, 2, BLACK, MAN>>, <<4, 3, WHITE, MAN>>, <<4, 7, WHITE, MAN>>,
         <<5, 4, WHITE, MAN>>, <<6, 3, WHITE, MAN>>, <<7, 0, WHITE, MAN>>,
         <<7, 2, BLACK, KING>> >>],
      [to_move |-> WHITE, placed |-> << <<1, 0, WHITE, KING>>, <<2, 1, WHITE, MAN>>,
         <<3, 0, WHITE, MAN>>, <<4, 7, BLACK, MAN>>, <<5, 2, WHITE, MAN>>,
         <<5, 4, WHITE, MAN>>, <<6, 7, WHITE, MAN>>, <<7, 6, BLACK, KING>> >>],
      [to_move |-> BLACK, placed |-> << <<2, 1, WHITE, KING>>, <<3, 0, WHITE, MAN>>,
         <<3, 2, BLACK, MAN>>, <<6, 7, BLACK, MAN>> >>],
      [to_move |-> BLACK, placed |-> << <<0, 5, BLACK, MAN>>, <<1, 6, BLACK, MAN>>,
         <<2, 1, BLACK, MAN>>, <<2, 5, BLACK, MAN>>, <<2, 7, WHITE, MAN>>,
         <<3, 0, WHITE, MAN>>, <<4, 7, BLACK, KING>>, <<6, 5, BLACK, MAN>> >>],
      [to_move |-> BLACK, placed |-> << <<0, 5, BLACK, MAN>>, <<1, 0, BLACK, MAN>>,
         <<1, 4, BLACK, MAN>>, <<1, 6, BLACK, MAN>>, <<2, 7, WHITE, MAN>>,
         <<3, 2, WHITE, MAN>>, <<4, 3, WHITE, MAN>>, <<7, 0, WHITE, MAN>>,
         <<7, 6, WHITE, MAN>> >>],
      [to_move |-> WHITE, placed |-> << <<0, 3, WHITE, KING>>, <<2, 1, BLACK, MAN>>,
         <<3, 2, WHITE, MAN>>, <<4, 1, BLACK, MAN>>, <<5, 0, WHITE, MAN>>,
         <<5, 2, WHITE, MAN>>, <<6, 3, WHITE, MAN>> >>],
      [to_move |-> WHITE, placed |-> << <<0, 5, WHITE, KING>>, <<1, 6, BLACK, MAN>>,
         <<3, 6, BLACK, MAN>>, <<4, 5, WHITE, MAN>>, <<4, 7, WHITE, MAN>>,
         <<5, 4, WHITE, MAN>>, <<7, 0, WHITE, MAN>>, <<7, 6, WHITE, MAN>> >>],
      [to_move |-> WHITE, placed |-> << <<0, 1, BLACK, MAN>>, <<0, 3, BLACK, MAN>>,
         <<0, 5, BLACK, MAN>>, <<0, 7, BLACK, MAN>>, <<1, 0, BLACK, MAN>>,
         <<1, 2, BLACK, MAN>>, <<1, 4, BLACK, MAN>>, <<1, 6, BLACK, MAN>>,
         <<6, 1, WHITE, MAN>>, <<6, 3, WHITE, MAN>>, <<6, 5, WHITE, MAN>>,
         <<6, 7, WHITE, MAN>>, <<7, 0, WHITE, MAN>>, <<7, 2, WHITE, MAN>>,
         <<7, 4, WHITE, MAN>>, <<7, 6, WHITE, MAN>> >>] }

InitAi ==
    /\ \E g \in AiGames :
           /\ board = SetUp(g.placed)
           /\ current_player = g.to_move
    /\ ply = 0
    /\ prev_board = board
    /\ last_move = NoMove
    /\ last_ok = TRUE
    /\ done = FALSE
    /\ best = NoSearch
    /\ call = NoCall
    /\ _valid_moves = <<>>
    /\ NoFrontEnd

\* get_best_move(board, player, depth) on the live board, object 1 of the
\* store; the function keeps nothing between calls, one call is followed
GetBestMove ==
    /\ best = NoSearch
    /\ \E player \in Player, depth \in 1 .. MaxDepth :
           \E r \in {get_best_move(<<board>>, 1, player, depth)} :
               /\ board' = r.store[1]
               /\ best' = [name |-> "get_best_move", board |-> board, player |-> player,
                           depth |-> depth, move |-> r.move, seen |-> r.seen]
    /\ UNCHANGED <<current_player, ply, prev_board, last_move, last_ok, done, call,
                 _valid_moves>>
    /\ UNCHANGED front

NextAi == GetBestMove

SpecAi == InitAi /\ [][NextAi]_vars

-----------------------------------------------------------------------------
(* board.py and interface_cli.py: square numbers, and the accessors of      *)
(* Board called with any coordinates                                        *)

\* what a call hands back: an int, None, or a ValueError raised
IntResult(n) == [kind |-> "int", value |-> n]
NoneResult == [kind |-> "None", value |-> 0]
ValueError == [kind |-> "ValueError", value |-> 0]

\* [c for c in range(8) if self.is_dark_square(row, c)]
dark_squares_in_row(row) ==
    SelectSeq([i \in 1 .. size |-> i - 1], LAMBDA c : is_dark_square(row, c))

\* list.index(x) of a list that holds x, counted from 0
index(list, x) ==
    (CHOOSE i \in 1 .. Len(list) : list[i] = x /\ \A j \in 1 .. (i - 1) : list[j] # x) - 1

\* Board.get_square_number
get_square_number(row, col) ==
    IF ~is_dark_square(row, col) THEN NoneResult
    ELSE IF ~InList(col, dark_squares_in_row(row)) THEN ValueError
    ELSE IntResult(row * 4 + index(dark_squares_in_row(row), col) + 1)

\* faulty variant of _square_num_to_pos: every row taken for an even one
_square_num_to_pos_even_rows(num) ==
    <<(num - 1) \div 4, ((num - 1) % 4) * 2 + 1>>

\* CLI._square_num_to_pos; GUI._square_num_to_pos is the same code
_square_num_to_pos(num) ==
    LET row == (num - 1) \div 4
        pos_in_row == (num - 1) % 4
    IN  IF row % 2 = 0 THEN <<row, pos_in_row * 2 + 1>> ELSE <<row, pos_in_row * 2>>

\* how far outside the board the coordinates of a call lie at most
MaxOff == 2

\* how many calls are followed
MaxCallPly == 1

Coords == (0 - MaxOff) .. (size - 1 + MaxOff)

\* the square numbers the interfaces accept
SquareNumbers == 1 .. 32

\* what can be handed to set_piece
PieceOrNone == {None} \cup {Piece(player, piece_type) : player \in Player, piece_type \in PieceType}

\* the parts of the state an accessor call leaves alone
CallFrame ==
    /\ ply' = ply + 1
    /\ prev_board' = board
    /\ UNCHANGED <<current_player, last_move, last_ok, done, best, _valid_moves>>
    /\ UNCHANGED front

GetSquareNumber ==
    /\ ply < MaxCallPly
    /\ \E row \in Coords, col \in Coords :
           call' = [name |-> "get_square_number", row |-> row, col |-> col,
                    result |-> get_square_number(row, col)]
    /\ board' = board
    /\ CallFrame

SquareNumToPos ==
    /\ ply < MaxCallPly
    /\ \E num \in SquareNumbers :
           call' = [name |-> "_square_num_to_pos", num |-> num,
                    result |-> _square_num_to_pos(num)]
    /\ board' = board
    /\ CallFrame

GetPiece ==
    /\ ply < MaxCallPly
    /\ \E row \in Coords, col \in Coords :
           call' = [name |-> "get_piece", row |-> row, col |-> col,
                    result |-> get_piece(board, row, col)]
    /\ board' = board
    /\ CallFrame

SetPiece ==
    /\ ply < MaxCallPly
    /\ \E row \in Coords, col \in Coords, piece \in PieceOrNone :
           /\ board' = set_piece(board, row, col, piece)
           /\ call' = [name |-> "set_piece", row |-> row, col |-> col, piece |-> piece]
    /\ CallFrame

RemovePiece ==
    /\ ply < MaxCallPly
    /\ \E row \in Coords, col \in Coords :
           /\ board' = remove_piece(board, row, col)
           /\ call' = [name |-> "remove_piece", row |-> row, col |-> col]
    /\ CallFrame

NextCall == GetSquareNumber \/ SquareNumToPos \/ GetPiece \/ SetPiece \/ RemovePiece

\* calls on a new Board
SpecCall == Init /\ [][NextCall]_vars

-----------------------------------------------------------------------------
(* thai_checker_env.py: ThaiCheckerEnv followed call by call, from the env   *)
(* as __init__ leaves it and from late positions of played games            *)

\* calls followed on one env
MaxEnvPly == 3

\* faulty variant of compute_reward: any win is paid to the player who moved
compute_reward_any_winner(acting_player, won_by) ==
    IF won_by = "NONE" THEN 0 ELSE 1

\* ThaiCheckerEnv.compute_reward(acting_player, winner): 1.0, -1.0 or 0.0;
\* "NONE" for the winner None
compute_reward(acting_player, won_by) ==
    IF won_by = "NONE" THEN 0
    ELSE IF won_by = acting_player THEN 1 ELSE -1

\* faulty variant of StepRaises: step does not look at done
StepRaises_done_ignored(is_done, action_index, n) ==
    IF action_index < 0 \/ action_index >= n THEN "ValueError"
    ELSE "NONE"

\* faulty variant of StepRaises: a negative index is let through
StepRaises_negative_accepted(is_done, action_index, n) ==
    IF is_done THEN "RuntimeError"
    ELSE IF action_index >= n THEN "ValueError"
    ELSE "NONE"

\* the exception step raises before it does anything, "NONE" if it goes on
StepRaises(is_done, action_index, n) ==
    IF is_done THEN "RuntimeError"
    ELSE IF action_index < 0 \/ action_index >= n THEN "ValueError"
    ELSE "NONE"

\* list[index] of Python: a negative index counts from the end of the list
Item(list, i) == IF i < 0 THEN list[Len(list) + i + 1] ELSE list[i + 1]

\* faulty variant of step_valid_moves: the moves of the player who has just moved
step_valid_moves_stale(b, player, game_over) ==
    IF game_over THEN <<>> ELSE get_all_valid_moves(b, Opponent(player))

\* what step leaves in _valid_moves: nothing when the game is over, else the
\* moves of the player now to move
step_valid_moves(b, player, game_over) ==
    IF game_over THEN <<>> ELSE get_all_valid_moves(b, player)

\* the fields of the env
EnvState ==
    [board |-> board, current_player |-> current_player, done |-> done,
     valid_moves |-> _valid_moves]

\* the env after ThaiCheckerEnv.__init__, or in the course of a game
InitEnv ==
    /\ \/ /\ board = None
          /\ current_player = WHITE
          /\ done = TRUE
          /\ _valid_moves = <<>>
       \/ \E g \in EndGames :
             /\ board = SetUp(g.placed)
             /\ current_player = g.to_move
             /\ done = is_game_over(board)[1]
             /\ _valid_moves = IF done THEN <<>>
                               ELSE get_all_valid_moves(board, current_player)
    /\ ply = 0
    /\ prev_board = board
    /\ last_move = NoMove
    /\ last_ok = TRUE
    /\ best = NoSearch
    /\ call = NoCall
    /\ Constructed("ENV")

\* ThaiCheckerEnv.reset
EnvReset ==
    /\ ui = "ENV"
    /\ ply < MaxEnvPly
    /\ board' = setup_initial_position
    /\ current_player' = reset_player(current_player)
    /\ done' = FALSE
    /\ _valid_moves' = get_all_valid_moves(board', current_player')
    /\ call' = [name |-> "reset", before |-> EnvState]
    /\ prev_board' = board
    /\ last_move' = NoMove
    /\ ply' = ply + 1
    /\ UNCHANGED <<last_ok, best>>
    /\ UNCHANGED front

\* ThaiCheckerEnv.step(action_index)
EnvStep ==
    /\ ui = "ENV"
    /\ ply < MaxEnvPly
    /\ \E action_index \in -1 .. Len(_valid_moves) :
       \E raised \in {StepRaises(done, action_index, Len(_valid_moves))} :
           IF raised # "NONE"
           THEN /\ call' = [name |-> "step", action_index |-> action_index,
                            raised |-> raised, before |-> EnvState]
                /\ UNCHANGED <<board, current_player, done, _valid_moves, prev_board,
                               last_move, last_ok>>
           ELSE \E move \in {Item(_valid_moves, action_index)} :
                \E child \in {execute_move(board, move)} :
                \E over \in {is_game_over(child)} :
                    /\ board' = child
                    /\ current_player' = Opponent(current_player)
                    /\ done' = IF over[1] THEN TRUE ELSE done
                    /\ _valid_moves' =
                           step_valid_moves(child, Opponent(current_player), over[1])
                    /\ call' = [name |-> "step", action_index |-> action_index,
                                raised |-> raised, before |-> EnvState,
                                acting_player |-> current_player,
                                game_over |-> over[1], winner |-> over[2],
                                reward |-> IF over[1]
                                           THEN compute_reward(current_player, over[2])
                                           ELSE 0,
                                done |-> done', truncated |-> FALSE]
                    /\ prev_board' = board
                    /\ last_move' = move
                    /\ last_ok' = execute_move_result(board, move)
    /\ ply' = ply + 1
    /\ UNCHANGED best
    /\ UNCHANGED front

NextEnv == EnvReset \/ EnvStep

SpecEnv == InitEnv /\ [][NextEnv]_vars

-----------------------------------------------------------------------------
(* minimax and evaluate called on boards of played games as get_best_move   *)
(* and minimax call them: minimax with the full window, for either side,    *)
(* maximizing or not, with the depths a search down from MaxDepth passes on *)

InitMinimax ==
    /\ \E g \in AiGames \cup EndGames :
           /\ board = SetUp(g.placed)
           /\ current_player = g.to_move
    /\ ply = 0
    /\ prev_board = board
    /\ last_move = NoMove
    /\ last_ok = TRUE
    /\ done = FALSE
    /\ best = NoSearch
    /\ call = NoCall
    /\ _valid_moves = <<>>
    /\ NoFrontEnd

\* minimax(board, depth, -inf, +inf, maximizing, ai_player) on the live board,
\* object 1 of the store; one call is followed
Minimax ==
    /\ call = NoCall
    /\ \E ai_player \in Player, depth \in 0 .. (MaxDepth - 1), maximizing \in BOOLEAN :
           \E r \in {minimax(<<board>>, 1, depth, -inf, inf, maximizing, ai_player, 0)} :
               /\ board' = r.store[1]
               /\ call' = [name |-> "minimax", board |-> board, depth |-> depth,
                           maximizing |-> maximizing, ai_player |-> ai_player,
                           val |-> r.val, seen |-> r.seen]
    /\ UNCHANGED <<current_player, ply, prev_board, last_move, last_ok, done, best,
                 _valid_moves>>
    /\ UNCHANGED front

\* evaluate(board, ai_player) on the live board; one call is followed
Evaluate ==
    /\ call = NoCall
    /\ \E ai_player \in Player :
           call' = [name |-> "evaluate", board |-> board, ai_player |-> ai_player,
                    val |-> evaluate(board, ai_player)]
    /\ UNCHANGED <<board, current_player, ply, prev_board, last_move, last_ok, done, best,
                 _valid_moves>>
    /\ UNCHANGED front

NextMinimax == Minimax \/ Evaluate

SpecMinimax == InitMinimax /\ [][NextMinimax]_vars

-----------------------------------------------------------------------------
(* The front ends, each followed from its construction on: the window of   *)
(* interface_gui.py (one action per event of GUI.run and one for the AI's  *)
(* turn at the end of a frame), the console program of interface_cli.py    *)
(* (one action per line the player types at a prompt of CLI.run, `ui`      *)
(* holding the prompt the program waits at), and the env                   *)

\* GUI.ai_player, CLI.ai_player
ai_player == BLACK

\* GUI.ai_depth, CLI.ai_depth, the depth handed to get_best_move: 6 in the
\* source, a bound of the searches followed here
ai_depth == 2

\* moves and loads followed in one window
MaxGuiPly == 3

\* moves followed in one console game
MaxCliPly == 2

\* all squares of the board, as get_square_from_mouse returns them
BoardSquares == {<<row, col>> : row \in Rows, col \in Rows}

\* f"{from_num}-{to_num}" of the squares of the move, as the pair of numbers
move_notation(move) ==
    <<get_square_number(move.from_pos[1], move.from_pos[2]).value,
      get_square_number(move.to_pos[1], move.to_pos[2]).value>>

\* the move log after `notation` of `player` has been recorded
Logged(log, white_move, player, notation) ==
    IF player = WHITE
    THEN [move_log |-> log, current_round_white_move |-> notation]
    ELSE [move_log |-> Append(log, <<white_move, notation>>),
          current_round_white_move |-> NoNotation]

\* faulty variant of OfferedMoves: the captures of other pieces are not looked at
OfferedMoves_own_piece_only(b, player, row, col) ==
    IF get_piece(b, row, col) = None \/ get_piece(b, row, col).player # player THEN <<>>
    ELSE get_valid_moves(b, row, col)

\* the moves handle_click and select_piece offer for the piece on (row, col),
\* <<>> where they select nothing
OfferedMoves(b, player, row, col) ==
    LET piece == get_piece(b, row, col)
    IN  IF piece = None \/ piece.player # player THEN <<>>
        ELSE Only({ LET must_capture ==
                            \E i \in 1 .. Len(all_moves) : is_capture(all_moves[i])
                    IN  IF must_capture THEN SelectSeq(moves, is_capture) ELSE moves :
                    moves \in {get_valid_moves(b, row, col)},
                    all_moves \in {get_all_valid_moves(b, player)} })

\* the first of `moves` that ends on `square`, NoMove for None
FirstTo(moves, square) ==
    LET hits == {i \in 1 .. Len(moves) : moves[i].to_pos = square}
    IN  IF hits = {} THEN NoMove ELSE moves[CHOOSE i \in hits : \A j \in hits : i <= j]

\* the first of `moves` from from_pos to to_pos, NoMove for None
FirstMatch(moves, from_pos, to_pos) ==
    LET hits == {i \in 1 .. Len(moves) :
                     moves[i].from_pos = from_pos /\ moves[i].to_pos = to_pos}
    IN  IF hits = {} THEN NoMove ELSE moves[CHOOSE i \in hits : \A j \in hits : i <= j]

\* the six fields _save_state keeps
GameFields ==
    [board |-> board, current_player |-> current_player, move_log |-> move_log,
     current_round_white_move |-> current_round_white_move, game_over |-> done,
     winner |-> winner]

\* a snapshot: the six fields, with the Board object `copy` names; `own` tells
\* that it is an object of its own, not object 1, the live Board
Snapshot(copy) ==
    [GameFields EXCEPT !.board = copy.store[copy.ref]] @@ [own |-> copy.ref # 1]

\* faulty variant of _save_state: the snapshot holds the live Board object
_save_state_live_board(stack, b) ==
    Only({ Append(stack, Snapshot(copy)) : copy \in {deepcopy_alias(<<b>>, 1)} })

\* GUI._save_state when the live Board holds `b`: the stack with a snapshot on
\* top
_save_state(stack, b) ==
    Only({ Append(stack, Snapshot(copy)) : copy \in {deepcopy(<<b>>, 1)} })

\* the snapshots once the live Board object holds `b`: a snapshot that holds
\* the live object shows what is done to it
Shown(stack, b) ==
    IF stack = <<>> THEN <<>>
    ELSE [i \in 1 .. Len(stack) |->
              IF stack[i].own THEN stack[i] ELSE [stack[i] EXCEPT !.board = b]]

\* the game a handler found when it was entered
Position == [board |-> board, current_player |-> current_player]

\* all that undo found when it was entered
Before ==
    [board |-> board, current_player |-> current_player, move_log |-> move_log,
     current_round_white_move |-> current_round_white_move, game_over |-> done,
     winner |-> winner, selected_pos |-> selected_pos, history |-> history,
     trail |-> trail]

\* a handler returns without having changed a field
Idle(name) ==
    /\ call' = [name |-> name, executed |-> FALSE, idle |-> TRUE, before |-> Position]
    /\ UNCHANGED <<board, current_player, ply, prev_board, last_move, last_ok, done, best,
                   _valid_moves, front>>

\* a handler changes the selection only
Selection(name, pos, moves) ==
    /\ selected_pos' = pos
    /\ valid_moves' = moves
    /\ call' = [name |-> name, executed |-> FALSE, idle |-> FALSE, before |-> Position]
    /\ UNCHANGED <<board, current_player, ply, prev_board, last_move, last_ok, done, best,
                   _valid_moves, ui, winner, ai_enabled, move_log,
                   current_round_white_move, history, trail>>

\* the move part of handle_click and of GUI.play_ai_turn, the same lines in
\* both: snapshot, log, execute_move on the live board `b`, switch of the side
\* to move, end of game, selection cleared
GuiMove(name, b, move) ==
    /\ ply < MaxGuiPly
    /\ \E child \in {execute_move(b, move)} :
       \E over \in {is_game_over(child)} :
       \E log \in {Logged(move_log, current_round_white_move, current_player,
                          move_notation(move))} :
           /\ history' = Shown(_save_state(history, b), child)
           /\ move_log' = log.move_log
           /\ current_round_white_move' = log.current_round_white_move
           /\ board' = child
           /\ current_player' = Opponent(current_player)
           /\ done' = IF over[1] THEN TRUE ELSE done
           /\ winner' = IF over[1] THEN over[2] ELSE winner
    /\ selected_pos' = NoPos
    /\ valid_moves' = <<>>
    /\ prev_board' = b
    /\ last_move' = move
    /\ last_ok' = execute_move_result(b, move)
    /\ trail' = Append(trail, GameFields)
    /\ ply' = ply + 1
    /\ call' = [name |-> name, executed |-> TRUE, idle |-> FALSE, before |-> Position,
                \* the move follows an undo at once, and what that undo found
                follows_undo |-> call.name = "undo" /\ ~call.idle,
                undone |-> IF call.name = "undo" /\ ~call.idle THEN call.before
                           ELSE NoCall]
    /\ UNCHANGED <<_valid_moves, ui, ai_enabled>>

\* GUI.handle_click on a square of the board or, NoPos, beside the board
GuiClick ==
    /\ ui = "GUI"
    /\ \E square \in BoardSquares \cup {NoPos} :
           IF done \/ current_player = ai_player \/ square = NoPos
           THEN Idle("handle_click")
           ELSE \E offered \in {OfferedMoves(board, current_player, square[1], square[2])} :
                \E selected_move \in {FirstTo(valid_moves, square)} :
                    IF selected_pos = NoPos
                    THEN IF offered # <<>>
                         THEN Selection("handle_click", square, offered)
                         ELSE Idle("handle_click")
                    ELSE IF square = selected_pos
                    THEN Selection("handle_click", NoPos, <<>>)
                    ELSE IF selected_move # NoMove
                    THEN GuiMove("handle_click", board, selected_move) /\ UNCHANGED best
                    ELSE IF get_piece(board, square[1], square[2]) # None
                            /\ get_piece(board, square[1], square[2]).player = current_player
                    \* the selection is cleared and handle_click is entered again
                    THEN IF offered # <<>>
                         THEN Selection("handle_click", square, offered)
                         ELSE Selection("handle_click", NoPos, <<>>)
                    ELSE Idle("handle_click")

\* GUI.undo, from the Undo button or from Ctrl-Z
GuiUndo ==
    /\ ui = "GUI"
    /\ IF history = <<>>
       THEN Idle("undo")
       ELSE /\ \E state \in {history[Len(history)]} :
                   /\ history' = SubSeq(history, 1, Len(history) - 1)
                   /\ board' = state.board
                   /\ current_player' = state.current_player
                   /\ move_log' = state.move_log
                   /\ current_round_white_move' = state.current_round_white_move
                   /\ done' = state.game_over
                   /\ winner' = state.winner
            /\ selected_pos' = NoPos
            /\ valid_moves' = <<>>
            /\ trail' = SubSeq(trail, 1, Len(trail) - 1)
            /\ call' = [name |-> "undo", executed |-> FALSE, idle |-> FALSE,
                        before |-> Before]
            /\ UNCHANGED <<ply, prev_board, last_move, last_ok, best, _valid_moves, ui,
                           ai_enabled>>

\* the AI's turn at the end of a frame of GUI.run: GUI.play_ai_turn
GuiPlayAiTurn ==
    /\ ui = "GUI"
    /\ ~done /\ current_player = ai_player
    /\ ply < MaxGuiPly
    /\ \E r \in {get_best_move(<<board>>, 1, ai_player, ai_depth)} :
           /\ best' = [name |-> "get_best_move", board |-> board, player |-> ai_player,
                       depth |-> ai_depth, move |-> r.move, seen |-> r.seen]
           /\ IF r.move = NoMove
              THEN /\ call' = [name |-> "play_ai_turn", executed |-> FALSE,
                               idle |-> TRUE, before |-> Position]
                   /\ board' = r.store[1]
                   /\ UNCHANGED <<current_player, ply, prev_board, last_move, last_ok, done,
                                  _valid_moves, front>>
              ELSE GuiMove("play_ai_turn", r.store[1], r.move)

\* csv.writer's rows of save_csv below the header: one per round, '' (here
\* NoNotation) for a move not made
save_csv(log, white_move) ==
    IF white_move # NoNotation THEN Append(log, <<white_move, NoNotation>>) ELSE log

\* the moves load_csv reads from the rows of a file
RECURSIVE read_csv(_, _)
read_csv(rows, i) ==
    IF i > Len(rows) THEN <<>>
    ELSE SelectSeq(rows[i], LAMBDA notation : notation # NoNotation) \o read_csv(rows, i + 1)

\* one pass of the replay loop of load_csv, for `notation`, from the state
\* `prev` the passes before it have left; no pass is made after a break
ReplayStep(prev, notation) ==
    IF prev.stopped THEN prev
    ELSE LET from_pos == _square_num_to_pos(notation[1])
             to_pos == _square_num_to_pos(notation[2])
             log == Logged(prev.move_log, prev.current_round_white_move,
                           prev.current_player, notation)
         IN  Only({ IF matched_move = NoMove THEN [prev EXCEPT !.stopped = TRUE]
                    ELSE [board |-> execute_move(prev.board, matched_move),
                          current_player |-> Opponent(prev.current_player),
                          move_log |-> log.move_log,
                          current_round_white_move |-> log.current_round_white_move,
                          prev_board |-> prev.board,
                          last_move |-> matched_move,
                          stopped |-> FALSE] :
                    matched_move \in
                        {Only({ FirstMatch(all_moves, from_pos, to_pos) :
                                all_moves \in {get_all_valid_moves(
                                                   prev.board, prev.current_player)} })} })

\* the state of the replay loop before its first pass: the fields as load_csv
\* has reset them
ReplayStart ==
    [board |-> setup_initial_position, current_player |-> WHITE, move_log |-> <<>>,
     current_round_white_move |-> NoNotation, prev_board |-> setup_initial_position,
     last_move |-> NoMove, stopped |-> FALSE]

RECURSIVE Replay(_, _, _, _)
\* the passes of the replay loop for the moves lo..hi, in order: those of the
\* first half of lo..hi, then, from the state they leave, those of the second
Replay(prev, moves, lo, hi) ==
    IF lo > hi THEN prev
    ELSE IF lo = hi THEN ReplayStep(prev, moves[lo])
    ELSE Only({ Replay(half, moves, (lo + hi) \div 2 + 1, hi) :
                half \in {Replay(prev, moves, lo, (lo + hi) \div 2)} })

\* GUI.load_csv of a file with `rows` below the header: the fields it leaves
load_csv(rows) ==
    Only({ Only({ [board |-> end.board, current_player |-> end.current_player,
                   move_log |-> end.move_log,
                   current_round_white_move |-> end.current_round_white_move,
                   game_over |-> over[1], winner |-> over[2],
                   prev_board |-> end.prev_board, last_move |-> end.last_move,
                   stopped |-> end.stopped] :
                  over \in {is_game_over(end.board)} }) :
           end \in {Replay(ReplayStart, read_csv(rows, 1), 1, Len(read_csv(rows, 1)))} })

\* a file as save_csv writes the moves of a game
RECURSIVE CsvOf(_, _)
CsvOf(notations, i) ==
    IF i > Len(notations) THEN <<>>
    ELSE IF i = Len(notations) THEN << <<notations[i], NoNotation>> >>
    ELSE << <<notations[i], notations[i + 1]>> >> \o CsvOf(notations, i + 2)

\* a game against get_best_move at depth 6 up to BLACK's 11th move, where two
\* captures of one Man end on the same square
TwoCaptures ==
    << <<28, 24>>, <<5, 9>>, <<25, 21>>, <<6, 10>>, <<21, 17>>, <<10, 14>>, <<17, 10>>,
       <<7, 14>>, <<30, 25>>, <<3, 7>>, <<25, 22>>, <<7, 10>>, <<26, 23>>, <<8, 11>>,
       <<32, 28>>, <<1, 5>>, <<31, 26>>, <<2, 6>>, <<24, 19>>, <<11, 15>>, <<22, 18>> >>

\* a game against get_best_move at depth 6 that BLACK wins with its 10th move
BlackWins ==
    << <<28, 24>>, <<5, 9>>, <<26, 23>>, <<6, 10>>, <<25, 21>>, <<8, 12>>, <<30, 25>>,
       <<1, 5>>, <<21, 17>>, <<9, 14>>, <<31, 26>>, <<14, 30>>, <<32, 28>>, <<10, 15>>,
       <<24, 19>>, <<15, 31>>, <<29, 25>>, <<31, 29>>, <<28, 24>>, <<30, 28>> >>

\* a game against get_best_move at depth 6 that WHITE's 13th move ends: WHITE
\* cannot move after it
WhiteBlocked ==
    << <<26, 22>>, <<5, 9>>, <<30, 26>>, <<6, 10>>, <<27, 24>>, <<1, 5>>, <<24, 19>>,
       <<10, 15>>, <<19, 10>>, <<7, 14>>, <<28, 24>>, <<2, 6>>, <<22, 18>>, <<14, 30>>,
       <<24, 19>>, <<30, 16>>, <<31, 26>>, <<16, 21>>, <<32, 28>>, <<8, 11>>, <<29, 25>>,
       <<21, 30>>, <<28, 24>>, <<30, 19>>, <<24, 8>> >>

\* the files load_csv is given: an empty one; games up to a capture WHITE must
\* make, up to the two captures, up to the last move of BLACK, up to the last
\* moves of both sides, and to the end; a file with a move that is not legal
\* where it stands
CsvFiles ==
    << <<>>,
       CsvOf(SubSeq(TwoCaptures, 1, 6), 1),
       CsvOf(TwoCaptures, 1),
       CsvOf(SubSeq(BlackWins, 1, 19), 1),
       CsvOf(SubSeq(WhiteBlocked, 1, 23), 1),
       CsvOf(WhiteBlocked, 1),
       CsvOf(<< <<28, 24>>, <<5, 9>>, <<24, 16>>, <<9, 13>> >>, 1) >>

\* what load_csv leaves of each of the files
LoadedFiles == [f \in 1 .. Len(CsvFiles) |-> load_csv(CsvFiles[f])]

\* GUI.load_csv, from the Load button, of a file chosen in the dialog
GuiLoadCsv ==
    /\ ui = "GUI"
    /\ ply < MaxGuiPly
    /\ \E f \in 1 .. Len(CsvFiles) :
       \E loaded \in {LoadedFiles[f]} :
           /\ board' = loaded.board
           /\ current_player' = loaded.current_player
           /\ move_log' = loaded.move_log
           /\ current_round_white_move' = loaded.current_round_white_move
           /\ done' = loaded.game_over
           /\ winner' = loaded.winner
           /\ prev_board' = loaded.prev_board
           /\ last_move' = loaded.last_move
           /\ call' = [name |-> "load_csv", executed |-> FALSE, idle |-> FALSE,
                       file |-> f]
    /\ selected_pos' = NoPos
    /\ valid_moves' = <<>>
    /\ history' = <<>>
    /\ trail' = <<>>
    /\ ply' = ply + 1
    /\ UNCHANGED <<last_ok, best, _valid_moves, ui, ai_enabled>>

\* CLI.select_game_mode at the start of CLI.run: 1 for a game against the AI
CliSelectGameMode ==
    /\ ui = "CLI"
    /\ \E choice \in {1, 2} :
           /\ ai_enabled' = (choice = 1)
           /\ call' = [name |-> "select_game_mode", executed |-> FALSE, idle |-> FALSE,
                       before |-> Position]
    /\ ui' = "CLI.play_turn"
    /\ UNCHANGED <<board, current_player, ply, prev_board, last_move, last_ok, done, best,
                   _valid_moves, winner, selected_pos, valid_moves, move_log,
                   current_round_white_move, history, trail>>

\* the move part of CLI.play_turn and of CLI.play_ai_turn: execute_move on the
\* board `b`, switch of the side to move, end of game; CLI.run leaves its loop
\* when the game is over
CliMove(name, b, move) ==
    /\ ply < MaxCliPly
    /\ \E child \in {execute_move(b, move)} :
       \E over \in {is_game_over(child)} :
           /\ board' = child
           /\ current_player' = Opponent(current_player)
           /\ done' = IF over[1] THEN TRUE ELSE done
           /\ winner' = IF over[1] THEN over[2] ELSE winner
           /\ ui' = IF over[1] THEN "OFF" ELSE "CLI.play_turn"
    /\ selected_pos' = NoPos
    /\ valid_moves' = <<>>
    /\ prev_board' = b
    /\ last_move' = move
    /\ last_ok' = execute_move_result(b, move)
    /\ ply' = ply + 1
    /\ call' = [name |-> name, executed |-> TRUE, idle |-> FALSE, before |-> Position]
    /\ UNCHANGED <<_valid_moves, ai_enabled, move_log, current_round_white_move, history,
                   trail>>

\* CLI.play_turn on the AI's turn: CLI.play_ai_turn
CliPlayAiTurn ==
    /\ ui = "CLI.play_turn"
    /\ ai_enabled /\ current_player = ai_player
    /\ ply < MaxCliPly
    /\ \E r \in {get_best_move(<<board>>, 1, ai_player, ai_depth)} :
           /\ best' = [name |-> "get_best_move", board |-> board, player |-> ai_player,
                       depth |-> ai_depth, move |-> r.move, seen |-> r.seen]
           /\ IF r.move = NoMove
              THEN /\ call' = [name |-> "play_ai_turn", executed |-> FALSE,
                               idle |-> TRUE, before |-> Position]
                   /\ board' = r.store[1]
                   /\ UNCHANGED <<current_player, ply, prev_board, last_move, last_ok, done,
                                  _valid_moves, front>>
              ELSE CliMove("play_ai_turn", r.store[1], r.move)

\* a line typed at the prompt of CLI.select_piece: the number of a square, or
\* 'q' (0)
CliSelectPiece ==
    /\ ui = "CLI.play_turn"
    /\ ~(ai_enabled /\ current_player = ai_player)
    /\ \E num \in 0 .. 32 :
           IF num = 0
           THEN /\ ui' = "OFF"
                /\ call' = [name |-> "select_piece", executed |-> FALSE, idle |-> FALSE,
                            before |-> Position]
                /\ UNCHANGED <<board, current_player, ply, prev_board, last_move, last_ok,
                               done, best, _valid_moves, winner, ai_enabled, selected_pos,
                               valid_moves, move_log, current_round_white_move, history,
                               trail>>
           ELSE \E pos \in {_square_num_to_pos(num)} :
                \E moves \in {OfferedMoves(board, current_player, pos[1], pos[2])} :
                    IF moves = <<>>
                    THEN Idle("select_piece")
                    ELSE /\ ui' = "CLI.select_move"
                         /\ selected_pos' = pos
                         /\ valid_moves' = moves
                         /\ call' = [name |-> "select_piece", executed |-> FALSE,
                                     idle |-> FALSE, before |-> Position]
                         /\ UNCHANGED <<board, current_player, ply, prev_board, last_move,
                                        last_ok, done, best, _valid_moves, winner,
                                        ai_enabled, move_log, current_round_white_move,
                                        history, trail>>

\* a line typed at the prompt of CLI.select_move: the number of a move, one
\* beyond the list, or 'b' (0), after which play_turn starts again
CliSelectMove ==
    /\ ui = "CLI.select_move"
    /\ \E choice_num \in 0 .. (Len(valid_moves) + 1) :
           IF choice_num = 0
           THEN /\ ui' = "CLI.play_turn"
                /\ selected_pos' = NoPos
                /\ valid_moves' = <<>>
                /\ call' = [name |-> "select_move", executed |-> FALSE, idle |-> FALSE,
                            before |-> Position]
                /\ UNCHANGED <<board, current_player, ply, prev_board, last_move, last_ok,
                               done, best, _valid_moves, winner, ai_enabled, move_log,
                               current_round_white_move, history, trail>>
           ELSE IF choice_num <= Len(valid_moves)
           THEN CliMove("select_move", board, valid_moves[choice_num]) /\ UNCHANGED best
           ELSE Idle("select_move")

\* a front end has been constructed: GUI(), CLI() or ThaiCheckerEnv()
InitPlay ==
    /\ \E owner \in {"GUI", "CLI", "ENV"} :
           /\ Constructed(owner)
           /\ board = IF owner = "ENV" THEN None ELSE setup_initial_position
           /\ done = (owner = "ENV")
    /\ current_player = WHITE
    /\ ply = 0
    /\ prev_board = board
    /\ last_move = NoMove
    /\ last_ok = TRUE
    /\ best = NoSearch
    /\ call = NoCall
    /\ _valid_moves = <<>>

NextPlay ==
    \/ GuiClick \/ GuiUndo \/ GuiLoadCsv \/ GuiPlayAiTurn
    \/ CliSelectGameMode \/ CliSelectPiece \/ CliSelectMove \/ CliPlayAiTurn
    \/ EnvReset \/ EnvStep

SpecPlay == InitPlay /\ [][NextPlay]_vars

-----------------------------------------------------------------------------
(* The rules as the claims state them, on the board as it stands before the *)
(* move: a captured piece stays on its square until the move is executed    *)
(* and the moving piece stands on its origin square.                        *)

Squares == Rows \X Rows

Range(list) == {list[i] : i \in 1 .. Len(list)}

NoDuplicates(list) == \A i, j \in 1 .. Len(list) : i # j => list[i] # list[j]

OnBoard(sq) == sq[1] \in Rows /\ sq[2] \in Rows

At(b, sq) == b[sq[1]][sq[2]]

PiecesOf(b, player) == {sq \in Squares : At(b, sq) # None /\ At(b, sq).player = player}

\* the far edge row of a side, and the row step that leads to it
FarRow(player) == IF player = WHITE THEN 0 ELSE size - 1
Forward(player) == IF player = WHITE THEN -1 ELSE 1

Diagonals == {<<-1, -1>>, <<-1, 1>>, <<1, -1>>, <<1, 1>>}

Step(sq, d, k) == <<sq[1] + k * d[1], sq[2] + k * d[2]>>

\* the single jumps <<jumped square, landing square>> open to a piece of `player`
\* and `kind` standing on `pos` after it has captured the squares `taken`
JumpsFrom(b, player, kind, pos, taken) ==
    LET rays == IF kind = MAN
                THEN {[d |-> d, k |-> 1] : d \in {e \in Diagonals : e[1] = Forward(player)}}
                ELSE {[d |-> d, k |-> k] : d \in Diagonals, k \in 1 .. (size - 1)}
        open == {ray \in rays :
                    LET over == Step(pos, ray.d, ray.k)
                        land == Step(pos, ray.d, ray.k + 1)
                    IN  /\ OnBoard(over) /\ OnBoard(land)
                        /\ At(b, over) # None
                        /\ At(b, over).player = Opponent(player)
                        /\ over \notin taken
                        /\ At(b, land) = None
                        /\ \A i \in 1 .. (ray.k - 1) :
                               \/ At(b, Step(pos, ray.d, i)) = None
                               \/ Step(pos, ray.d, i) \in taken}
    IN  {<<Step(pos, ray.d, ray.k), Step(pos, ray.d, ray.k + 1)>> : ray \in open}

RECURSIVE MaximalChains(_, _, _, _, _)
\* the chains <<jumped squares in order, last landing square>> that start with
\* `captured` on `pos` and end where no jump is left
MaximalChains(b, player, kind, pos, captured) ==
    LET jumps == JumpsFrom(b, player, kind, pos, Range(captured))
    IN  IF jumps = {}
        THEN {<<captured, pos>>}
        ELSE UNION {MaximalChains(b, player, kind, j[2], Append(captured, j[1])) : j \in jumps}

\* the capture Moves of the piece on `sq`: one per maximal chain
ChainMoves(b, sq) ==
    LET piece == At(b, sq)
    IN  IF JumpsFrom(b, piece.player, piece.piece_type, sq, {}) = {}
        THEN {}
        ELSE {Move(sq, ch[2], ch[1]) :
                 ch \in MaximalChains(b, piece.player, piece.piece_type, sq, <<>>)}

\* the capture Moves get_valid_moves returns for the piece on `sq`
CapturesOf(b, sq) == {m \in Range(get_valid_moves(b, sq[1], sq[2])) : is_capture(m)}

\* a move has been executed in this state
Moved == last_move # NoMove

-----------------------------------------------------------------------------
(* Claims about move enumeration *)

\* C1: on every board reached from the initial position and for each side, if
\* some piece of the side can jump, get_all_valid_moves returns capture moves
\* only (and at least one).
C1_MandatoryCapture ==
    \A player \in Player :
        (\E sq \in PiecesOf(board, player) :
             JumpsFrom(board, player, At(board, sq).piece_type, sq, {}) # {})
        => /\ get_all_valid_moves(board, player) # <<>>
           /\ \A m \in Range(get_all_valid_moves(board, player)) : is_capture(m)

\* C1 witness: a side with a piece that can jump and another piece whose own
\* moves are quiet ones, which the filter drops
C1_Witness ==
    \E player \in Player :
        /\ \E sq \in PiecesOf(board, player) : CapturesOf(board, sq) # {}
        /\ \E sq \in PiecesOf(board, player) :
               \E m \in Range(get_valid_moves(board, sq[1], sq[2])) : ~is_capture(m)

\* C2: in every capture Move returned by get_valid_moves or get_all_valid_moves
\* no square is listed twice in captured_pieces and every listed square holds
\* a piece of the opposing side on the board the move was enumerated on.
C2_CapturedDistinctOpposing ==
    \A player \in Player :
        \A m \in Range(get_all_valid_moves(board, player))
                 \cup UNION {CapturesOf(board, sq) : sq \in PiecesOf(board, player)} :
            /\ NoDuplicates(m.captured_pieces)
            /\ \A sq \in Range(m.captured_pieces) :
                   /\ OnBoard(sq)
                   /\ At(board, sq) # None
                   /\ At(board, sq).player = Opponent(player)

\* C2 witness: a King's Move of three captures and a Man's Move of two
C2_Witness ==
    /\ \E sq \in Squares :
           /\ At(board, sq).piece_type = KING
           /\ \E m \in CapturesOf(board, sq) : Len(m.captured_pieces) >= 3
    /\ \E sq \in Squares :
           /\ At(board, sq).piece_type = MAN
           /\ \E m \in CapturesOf(board, sq) : Len(m.captured_pieces) >= 2

\* the board while the piece from `sq` is under way: it has left its square
Lift(b, sq) == [b EXCEPT ![sq[1]][sq[2]] = None]

\* C3: chains are maximal: the piece that made a returned capture Move, now on
\* the Move's destination and no longer on its origin square, has no jump left
\* over an opposing piece the Move has not captured.
C3_ChainsMaximal ==
    \A sq \in Squares :
        At(board, sq) # None =>
            \A m \in CapturesOf(board, sq) :
                JumpsFrom(Lift(board, sq), At(board, sq).player, At(board, sq).piece_type,
                          m.to_pos, Range(m.captured_pieces)) = {}

\* what the enumeration does guarantee: no jump is left as long as the origin
\* square of the moving piece is taken to be occupied by an own piece
ChainsMaximalOriginOccupied ==
    \A sq \in Squares :
        At(board, sq) # None =>
            \A m \in CapturesOf(board, sq) :
                JumpsFrom(board, At(board, sq).player, At(board, sq).piece_type,
                          m.to_pos, Range(m.captured_pieces)) = {}

\* C4: a Man that can chain jumps gets exactly one Move per maximal chain, from
\* the Man's square to the last landing square, with the jumped squares in
\* jump order: k captures take it 2k rows forward, and no Move stops at an
\* intermediate landing square.
C4_ManMultiJump ==
    \A sq \in Squares :
        At(board, sq).piece_type = MAN =>
            LET moves == get_valid_moves(board, sq[1], sq[2])
                chains == ChainMoves(board, sq)
            IN  /\ CapturesOf(board, sq) = chains
                /\ chains # {} => /\ Range(moves) = chains
                                  /\ Len(moves) = Cardinality(chains)
                /\ \A m \in CapturesOf(board, sq) :
                       /\ m.from_pos = sq
                       /\ m.to_pos[1] = sq[1] + 2 * Len(m.captured_pieces)
                                                  * Forward(At(board, sq).player)

\* C4 witness: a Man with two chains, each of two jumps or more
C4_Witness ==
    \E sq \in Squares :
        /\ At(board, sq).piece_type = MAN
        /\ Cardinality(CapturesOf(board, sq)) >= 2
        /\ \A m \in CapturesOf(board, sq) : Len(m.captured_pieces) >= 2

Sign(x) == IF x > 0 THEN 1 ELSE IF x < 0 THEN -1 ELSE 0

RECURSIVE LandingOf(_, _)
\* where the moving piece stands after the first i jumps of the chain of m:
\* on the square right behind the i-th jumped piece
LandingOf(m, i) ==
    IF i = 0 THEN m.from_pos
    ELSE LET before == LandingOf(m, i - 1)
             over == m.captured_pieces[i]
         IN  <<over[1] + Sign(over[1] - before[1]), over[2] + Sign(over[2] - before[2])>>

\* the squares strictly between the square a jump starts on and the piece it jumps
ScannedBy(m, i) ==
    LET before == LandingOf(m, i - 1)
        over == m.captured_pieces[i]
        d == <<Sign(over[1] - before[1]), Sign(over[2] - before[2])>>
    IN  {Step(before, d, k) : k \in 1 .. ((over[1] - before[1]) * d[1] - 1)}

\* C5: King pass-through: the capture Moves of a King are exactly the chains,
\* maximal on the board as enumerated, in which a square captured earlier in
\* the chain is scanned over like an empty one; in each jump of a returned Move the squares scanned are empty
\* or captured earlier in the chain, and the jumped square is not one of them.
C5_KingPassThrough ==
    \A sq \in Squares :
        At(board, sq).piece_type = KING =>
            /\ CapturesOf(board, sq) = ChainMoves(board, sq)
            /\ \A m \in CapturesOf(board, sq) :
                   /\ LandingOf(m, Len(m.captured_pieces)) = m.to_pos
                   /\ \A i \in 1 .. Len(m.captured_pieces) :
                          /\ m.captured_pieces[i] \notin
                                 {m.captured_pieces[j] : j \in 1 .. (i - 1)}
                          /\ \A s \in ScannedBy(m, i) :
                                 \/ At(board, s) = None
                                 \/ s \in {m.captured_pieces[j] : j \in 1 .. (i - 1)}

\* C5 witness: a returned King Move with a jump whose scan passes over a square
\* captured by an earlier jump of the same Move
C5_Witness ==
    \E sq \in Squares :
        /\ At(board, sq).piece_type = KING
        /\ \E m \in CapturesOf(board, sq) :
               \E i \in 1 .. Len(m.captured_pieces) :
                   ScannedBy(m, i) \cap {m.captured_pieces[j] : j \in 1 .. (i - 1)} # {}

\* two different maximal chains of the piece on sq with the same landing square
\* that capture different squares
SameEndChains(b, sq) ==
    {pair \in ChainMoves(b, sq) \X ChainMoves(b, sq) :
        /\ pair[1].to_pos = pair[2].to_pos
        /\ Range(pair[1].captured_pieces) # Range(pair[2].captured_pieces)}

\* C6: no deduplication by endpoints: two maximal chains of one piece with the
\* same origin and landing square and different captured squares are both
\* returned, as two entries, by get_valid_moves and by get_all_valid_moves.
C6_NotDeduplicated ==
    \A player \in Player :
        \A sq \in PiecesOf(board, player) :
            \A pair \in SameEndChains(board, sq) :
                LET moves == get_valid_moves(board, sq[1], sq[2])
                    all_moves == get_all_valid_moves(board, player)
                IN  /\ \E i, j \in 1 .. Len(moves) :
                           i # j /\ moves[i] = pair[1] /\ moves[j] = pair[2]
                    /\ \E i, j \in 1 .. Len(all_moves) :
                           i # j /\ all_moves[i] = pair[1] /\ all_moves[j] = pair[2]

\* C6 witness: a Man with two such chains, which get_valid_moves returns
C6_Witness ==
    \E sq \in Squares :
        /\ At(board, sq).piece_type = MAN
        /\ SameEndChains(board, sq) # {}
        /\ \E i, j \in 1 .. Len(get_valid_moves(board, sq[1], sq[2])) :
               /\ i # j
               /\ get_valid_moves(board, sq[1], sq[2])[i].to_pos
                      = get_valid_moves(board, sq[1], sq[2])[j].to_pos

-----------------------------------------------------------------------------
(* Claims about move application *)

\* the piece that made the last move, as it stood before the move
Mover == At(prev_board, last_move.from_pos)

\* C7: promotion: after execute_move of a legal move a piece that was a Man is
\* a King exactly if the destination row is the far row of its side, a piece
\* that was a King is a King, and no other piece on the board changes.
C7_Promotion ==
    Moved =>
        /\ At(board, last_move.to_pos) # None
        /\ At(board, last_move.to_pos).player = Mover.player
        /\ Mover.piece_type = MAN =>
               (At(board, last_move.to_pos).piece_type = KING
                    <=> last_move.to_pos[1] = FarRow(Mover.player))
        /\ Mover.piece_type = KING => At(board, last_move.to_pos).piece_type = KING
        /\ \A sq \in Squares \ {last_move.to_pos} :
               At(board, sq) # None => At(board, sq) = At(prev_board, sq)

\* C7 witness: a Man has moved to its far row and is a King, by a quiet move
\* or by a capture
C7_Witness ==
    /\ Moved
    /\ Mover.piece_type = MAN
    /\ last_move.to_pos[1] = FarRow(Mover.player)
    /\ At(board, last_move.to_pos).piece_type = KING

\* C8: effect and frame of execute_move for a Move of get_all_valid_moves: the
\* origin is empty, the destination holds the moved piece of the same side,
\* every captured square is empty, every other square is unchanged; the
\* mover's side keeps its number of pieces and the other side loses exactly
\* len(captured_pieces).
C8_ExecuteMoveEffect ==
    Moved =>
        /\ At(board, last_move.from_pos) = None
        /\ At(board, last_move.to_pos) # None
        /\ At(board, last_move.to_pos).player = Mover.player
        /\ \A sq \in Range(last_move.captured_pieces) : At(board, sq) = None
        /\ \A sq \in Squares \ ({last_move.from_pos, last_move.to_pos}
                                 \cup Range(last_move.captured_pieces)) :
               At(board, sq) = At(prev_board, sq)
        /\ count_pieces(board, Mover.player) = count_pieces(prev_board, Mover.player)
        /\ count_pieces(board, Opponent(Mover.player))
               = count_pieces(prev_board, Opponent(Mover.player))
                 - Len(last_move.captured_pieces)

\* C8 witness: a Move with several captures has been executed and pieces that
\* took no part in it are on the board
C8_Witness ==
    /\ Moved
    /\ Len(last_move.captured_pieces) >= 2
    /\ PiecesOf(board, Opponent(Mover.player)) # {}
    /\ Cardinality(PiecesOf(board, Mover.player)) >= 2

\* C9 (as claimed): execute_move with a Move that is not in get_all_valid_moves
\* for the board and the side to move leaves the board unchanged and reports
\* failure.
C9_IllegalMoveRejected ==
    (Moved /\ last_move \notin Range(get_all_valid_moves(prev_board, WHITE))
           /\ last_move \notin Range(get_all_valid_moves(prev_board, BLACK)))
    => (board = prev_board /\ last_ok = FALSE)

\* C10: in every state reached from the initial position by legal moves every
\* piece stands on a dark square of the 8x8 board and each side has at most
\* 8 pieces.
C10_DarkSquaresAtMostEight ==
    /\ DOMAIN board = 0 .. 7
    /\ \A row \in DOMAIN board : DOMAIN board[row] = 0 .. 7
    /\ \A row \in DOMAIN board : \A col \in DOMAIN board[row] :
           board[row][col] # None => (row + col) % 2 = 1
    /\ \A player \in Player : Cardinality(PiecesOf(board, player)) <= 8

\* C10 witness: pieces have left their starting rows and one has been captured
C10_Witness ==
    /\ Moved
    /\ is_capture(last_move)
    /\ \E player \in Player : Cardinality(PiecesOf(board, player)) < 8

-----------------------------------------------------------------------------
(* Claims about the end of the game *)

\* the board without the pieces of `player`
Without(b, player) ==
    [row \in Rows |-> [col \in Rows |->
        IF b[row][col] # None /\ b[row][col].player = player THEN None ELSE b[row][col]]]

\* C11: on a board where exactly one side has no piece is_game_over returns
\* (True, the other side), whoever is to move and whether or not the other side
\* can move: on every board reached, and on every board reached with the
\* pieces of one side taken off.
C11_NoPiecesLoses ==
    \A side \in Player :
        PiecesOf(board, Opponent(side)) # {} =>
            /\ PiecesOf(board, side) = {} => is_game_over(board) = <<TRUE, Opponent(side)>>
            /\ is_game_over(Without(board, side)) = <<TRUE, Opponent(side)>>

\* C11 witness: a capture has just taken the last piece of a side
C11_Witness ==
    /\ Moved
    /\ \E side \in Player :
           /\ PiecesOf(board, side) = {}
           /\ PiecesOf(prev_board, side) # {}
           /\ PiecesOf(board, Opponent(side)) # {}

C13_ContinuesWhileMoverCanMove ==
    (/\ PiecesOf(board, WHITE) # {}
     /\ PiecesOf(board, BLACK) # {}
     /\ get_all_valid_moves(board, current_player) # <<>>)
    => is_game_over(board) = <<FALSE, "NONE">>

-----------------------------------------------------------------------------
(* Claims about the search *)

\* get_best_move has been called and has returned
Searched == best # NoSearch

\* the legal moves of the side the search was called for
SearchMoves == get_all_valid_moves(best.board, best.player)

\* `m` takes the last pieces of the opponent of the searching side
TakesLastPiece(m) ==
    /\ is_capture(m)
    /\ PiecesOf(execute_move(best.board, m), Opponent(best.player)) = {}

\* after `m` the game is over and the searching side has won
WinsAtOnce(m) == is_game_over(execute_move(best.board, m)) = <<TRUE, best.player>>

\* C14: get_best_move returns None exactly when the side has no legal move;
\* with a single legal move it returns that move and makes no minimax call;
\* otherwise it returns one of the legal moves.
C14_BestMoveNoneOrLegal ==
    Searched =>
        /\ best.move = NoMove <=> SearchMoves = <<>>
        /\ Len(SearchMoves) = 1 => best.move = SearchMoves[1] /\ best.seen.nodes = 0
        /\ Len(SearchMoves) >= 2 => InList(best.move, SearchMoves)

\* C14 witness: a search among several legal moves that made minimax calls
C14_Witness ==
    /\ Searched
    /\ Len(SearchMoves) >= 2
    /\ best.seen.nodes > 0

\* C15 as claimed: when the side has a capture that takes the opponent's last
\* piece, get_best_move at depth >= 1 returns such a capture.
C15_ForcedWinCaptureReturned ==
    (Searched /\ \E m \in Range(SearchMoves) : TakesLastPiece(m))
    => TakesLastPiece(best.move)

\* C15 amended: when the side has a capture that takes the opponent's last
\* piece, get_best_move at depth >= 1 returns the first move in enumeration
\* order that ends the game at once with the side as winner: that capture, or
\* an earlier move that leaves the opponent without a legal move.  It is that
\* capture whenever the opponent has a single piece left.
C15_ForcedWinReturnsFirstWin ==
    (Searched /\ \E m \in Range(SearchMoves) : TakesLastPiece(m))
    => /\ \E i \in 1 .. Len(SearchMoves) :
              /\ best.move = SearchMoves[i]
              /\ WinsAtOnce(SearchMoves[i])
              /\ \A j \in 1 .. (i - 1) : ~WinsAtOnce(SearchMoves[j])
       /\ Cardinality(PiecesOf(best.board, Opponent(best.player))) = 1
              => TakesLastPiece(best.move)

\* C15 witness: a search with a choice of moves, one of them a capture of the
\* opponent's last pieces
C15_Witness ==
    /\ Searched
    /\ Len(SearchMoves) >= 2
    /\ \E m \in Range(SearchMoves) : TakesLastPiece(m)

\* C16: the search only reads the live board: when get_best_move has returned
\* every square of the board holds what it held before the call.
C16_SearchLeavesBoard ==
    Searched => \A sq \in Squares : At(board, sq) = At(best.board, sq)

\* C16 witness: a search that has executed moves two plies deep
C16_Witness ==
    /\ Searched
    /\ best.seen.deep >= 2

\* C17: a get_best_move call with depth >= 1 that has returned made no
\* minimax call deeper than depth plies below the root and passed no call a
\* depth below 0.
C17_SearchBounded ==
    Searched => /\ best.depth >= 1
                /\ best.seen.low >= 0
                /\ best.seen.deep <= best.depth

\* C17 witness: a search that has made calls down to depth 0, as many plies
\* below the root as the depth it was given
C17_Witness ==
    /\ Searched
    /\ best.depth >= 2
    /\ best.seen.low = 0
    /\ best.seen.deep = best.depth

-----------------------------------------------------------------------------
(* Claims about square numbers and coordinates *)

\* the dark squares of the board
DarkSquares == {sq \in Rows \X Rows : (sq[1] + sq[2]) % 2 = 1}

\* the place of a dark square among the dark squares in row-major order
RowMajorRank(sq) ==
    Cardinality({other \in DarkSquares :
                    \/ other[1] < sq[1]
                    \/ other[1] = sq[1] /\ other[2] <= sq[2]})

\* C18: get_square_number numbers the 32 dark squares 1..32 in row-major
\* order, one number per square, and _square_num_to_pos is its inverse:
\* the square of the number of a dark square is that square, and the number
\* of the square of a number in 1..32 is that number.
C18_NotationRoundTrip ==
    /\ (call.name = "get_square_number" /\ <<call.row, call.col>> \in DarkSquares)
       => /\ call.result = IntResult(RowMajorRank(<<call.row, call.col>>))
          /\ call.result.value \in 1 .. 32
          /\ _square_num_to_pos(call.result.value) = <<call.row, call.col>>
          /\ \A other \in DarkSquares :
                 get_square_number(other[1], other[2]) = call.result
                 => other = <<call.row, call.col>>
    /\ call.name = "_square_num_to_pos"
       => /\ call.result \in DarkSquares
          /\ get_square_number(call.result[1], call.result[2]) = IntResult(call.num)

\* C18 witness: the square of a number of an odd row has been asked for
C18_Witness ==
    /\ call.name = "_square_num_to_pos"
    /\ call.result[1] % 2 = 1

\* C19: with row or col outside 0..7 get_piece returns None, set_piece and
\* remove_piece leave the grid as it was and get_square_number returns None,
\* not a number and not an exception; on a light square get_square_number
\* returns None.
C19_OutOfDomainRejected ==
    /\ (call.name = "get_piece" /\ <<call.row, call.col>> \notin Rows \X Rows)
       => call.result = None
    /\ (call.name \in {"set_piece", "remove_piece"}
        /\ <<call.row, call.col>> \notin Rows \X Rows)
       => board = prev_board
    /\ (call.name = "get_square_number" /\ <<call.row, call.col>> \notin Rows \X Rows)
       => call.result = NoneResult
    /\ (call.name = "get_square_number" /\ (call.row + call.col) % 2 = 0)
       => call.result = NoneResult

\* the part of C19 about get_piece, set_piece and remove_piece and about light
\* squares
OutOfDomainRejectedByAccessors ==
    /\ (call.name = "get_piece" /\ <<call.row, call.col>> \notin Rows \X Rows)
       => call.result = None
    /\ (call.name \in {"set_piece", "remove_piece"}
        /\ <<call.row, call.col>> \notin Rows \X Rows)
       => board = prev_board
    /\ (call.name = "get_square_number" /\ (call.row + call.col) % 2 = 0)
       => call.result = NoneResult

-----------------------------------------------------------------------------
(* Claims about the initial position *)

\* what the initial layout puts on a square
InitialOccupant(sq) ==
    IF (sq[1] + sq[2]) % 2 = 1 /\ sq[1] \in {0, 1} THEN Piece(BLACK, MAN)
    ELSE IF (sq[1] + sq[2]) % 2 = 1 /\ sq[1] \in {6, 7} THEN Piece(WHITE, MAN)
    ELSE None

\* 8 BLACK Men on the dark squares of rows 0-1, 8 WHITE Men on the dark
\* squares of rows 6-7, nothing else
InitialLayout(b) ==
    /\ \A sq \in Squares : At(b, sq) = InitialOccupant(sq)
    /\ Cardinality({sq \in Squares : At(b, sq) = Piece(BLACK, MAN)}) = 8
    /\ Cardinality({sq \in Squares : At(b, sq) = Piece(WHITE, MAN)}) = 8
    /\ \A sq \in Squares : ~is_king(At(b, sq))

\* reset has just been called
JustReset == ply > 0 /\ last_move = NoMove

\* C20: a new Board, and the board after reset, holds exactly 8 BLACK Men on
\* the dark squares of rows 0-1 and 8 WHITE Men on the dark squares of rows
\* 6-7, no King, and nothing on any other square; after reset WHITE is to move
\* and done is False, whatever the state before.
C20_InitialLayoutAndReset ==
    /\ InitialLayout(setup_initial_position)
    /\ JustReset => /\ InitialLayout(board)
                    /\ current_player = WHITE
                    /\ done = FALSE

\* C20 witness: reset has been called on a game that was over
C20_Witness ==
    /\ JustReset
    /\ is_game_over(prev_board)[1]
    /\ ~InitialLayout(prev_board)

-----------------------------------------------------------------------------
(* Claims about the env *)

\* step has just been called / has just returned without raising
Stepped == call.name = "step"
StepReturned == Stepped /\ call.raised = "NONE"

\* C21: step called while done is True, after a game has ended or before the
\* first reset, raises RuntimeError and leaves board, current_player, done and
\* the valid-move list as they were; so done, once True, is True until reset
\* is called.
C21_StepWhenDoneRaises ==
    /\ (Stepped /\ call.before.done)
       => /\ call.raised = "RuntimeError"
          /\ EnvState = call.before
    /\ (call.name # "NONE" /\ call.before.done /\ ~done) => call.name = "reset"

\* C21 witness: step has been called on a game that a step had ended
C21_Witness ==
    /\ Stepped
    /\ call.before.done
    /\ call.before.board # None
    /\ is_game_over(board)[1]

\* C22: a step that does not end the game returns reward 0.0 and done False; a
\* step that ends it returns done True and reward +1.0 if the winner is the
\* player who has just moved, -1.0 if it is the other player; truncated is
\* always False.
C22_StepReward ==
    StepReturned =>
        /\ call.game_over = is_game_over(board)[1]
        /\ call.winner = is_game_over(board)[2]
        /\ ~call.game_over => call.reward = 0 /\ call.done = FALSE /\ ~done
        /\ call.game_over =>
               /\ call.done = TRUE /\ done
               /\ call.winner = call.acting_player => call.reward = 1
               /\ call.winner = Opponent(call.acting_player) => call.reward = -1
               /\ call.winner \in Player
        /\ call.acting_player = call.before.current_player
        /\ call.truncated = FALSE

\* C22 witness: a step has ended the game with the other player as winner
C22_Witness ==
    /\ StepReturned
    /\ call.game_over
    /\ call.winner = Opponent(call.acting_player)

-----------------------------------------------------------------------------
(* Claims about the moves of one piece and of a side *)

\* the squares a piece on `sq` can go to without capturing: a Man one step to
\* an empty forward diagonal neighbour, a King any distance along a diagonal
\* over empty squares
QuietTargets(b, sq) ==
    IF At(b, sq).piece_type = MAN
    THEN {t \in {Step(sq, d, 1) : d \in {e \in Diagonals : e[1] = Forward(At(b, sq).player)}} :
             OnBoard(t) /\ At(b, t) = None}
    ELSE {t \in Squares :
             \E d \in Diagonals, k \in 1 .. (size - 1) :
                 /\ t = Step(sq, d, k)
                 /\ \A i \in 1 .. k : At(b, Step(sq, d, i)) = None}

QuietMoves(b, sq) == {Move(sq, t, <<>>) : t \in QuietTargets(b, sq)}

\* the piece on `sq` has a jump of its own
CanJump(b, sq) == JumpsFrom(b, At(b, sq).player, At(b, sq).piece_type, sq, {}) # {}

RECURSIVE RowMajor(_)
\* the squares of a set in row-major order
RowMajor(S) ==
    IF S = {} THEN <<>>
    ELSE LET first == CHOOSE sq \in S :
                          \A other \in S : \/ sq[1] < other[1]
                                           \/ sq[1] = other[1] /\ sq[2] <= other[2]
         IN  <<first>> \o RowMajor(S \ {first})

RECURSIVE PerPieceMoves(_, _)
\* the get_valid_moves results of the pieces on `squares`, one after the other
PerPieceMoves(b, squares) ==
    IF squares = <<>> THEN <<>>
    ELSE get_valid_moves(b, squares[1][1], squares[1][2]) \o PerPieceMoves(b, Tail(squares))

\* C23: get_all_valid_moves is the capture filter over the per-piece results
\* taken in row-major order of the side's pieces: their captures, in order,
\* if there is any, otherwise all of them. get_valid_moves of a piece does not
\* look at the other pieces' captures: a piece without a jump of its own gets
\* its quiet moves also when another piece of its side can capture.
C23_CrossPieceFilter ==
    \A player \in Player :
        LET U == PerPieceMoves(board, RowMajor(PiecesOf(board, player)))
            captures == SelectSeq(U, is_capture)
        IN  /\ get_all_valid_moves(board, player) = IF captures # <<>> THEN captures ELSE U
            /\ \A sq \in PiecesOf(board, player) :
                   ~CanJump(board, sq)
                   => /\ Range(get_valid_moves(board, sq[1], sq[2])) = QuietMoves(board, sq)
                      /\ NoDuplicates(get_valid_moves(board, sq[1], sq[2]))

\* C23 witness: a piece that can capture next to a piece of the same side that
\* cannot and has a quiet move
C23_Witness ==
    \E player \in Player :
        \E capturing, quiet \in PiecesOf(board, player) :
            /\ CanJump(board, capturing)
            /\ ~CanJump(board, quiet)
            /\ QuietMoves(board, quiet) # {}
            /\ get_valid_moves(board, quiet[1], quiet[2]) # <<>>

\* the Men of a side
MenOf(b, player) == {sq \in PiecesOf(b, player) : At(b, sq).piece_type = MAN}

\* the i-th jump of the chain of m is a jump of a Man of `player`: two rows
\* forward over an adjacent opposing piece onto an empty square of the board
ManJump(b, player, m, i) ==
    LET before == LandingOf(m, i - 1)
        over == m.captured_pieces[i]
        land == LandingOf(m, i)
    IN  /\ over[1] = before[1] + Forward(player)
        /\ over[2] \in {before[2] - 1, before[2] + 1}
        /\ land = <<before[1] + 2 * Forward(player), 2 * over[2] - before[2]>>
        /\ OnBoard(over) /\ OnBoard(land)
        /\ At(b, over) # None /\ At(b, over).player = Opponent(player)
        /\ At(b, land) = None

\* C24: every Move returned for a Man ends on a row strictly forward of its
\* origin (a smaller row for WHITE, a larger one for BLACK); a quiet move goes
\* one row forward to an empty diagonal neighbour; each jump of a capture goes
\* two rows forward over an adjacent opposing piece onto an empty square of
\* the board; no move or jump of a Man goes backward or sideways.
C24_MenOnlyForward ==
    \A player \in Player :
        \A sq \in MenOf(board, player) :
            \A m \in Range(get_valid_moves(board, sq[1], sq[2])) :
                /\ m.from_pos = sq
                /\ (m.to_pos[1] - sq[1]) * Forward(player) > 0
                /\ ~is_capture(m)
                   => /\ m.to_pos[1] = sq[1] + Forward(player)
                      /\ m.to_pos[2] \in {sq[2] - 1, sq[2] + 1}
                      /\ OnBoard(m.to_pos) /\ At(board, m.to_pos) = None
                /\ is_capture(m)
                   => /\ \A i \in 1 .. Len(m.captured_pieces) : ManJump(board, player, m, i)
                      /\ m.to_pos = LandingOf(m, Len(m.captured_pieces))

\* C24 witness: on one board a Man has a capture of two jumps and a Man has a
\* quiet move
C24_Witness ==
    /\ \E player \in Player : \E sq \in MenOf(board, player) :
           \E m \in Range(get_valid_moves(board, sq[1], sq[2])) :
               Len(m.captured_pieces) >= 2
    /\ \E player \in Player : \E sq \in MenOf(board, player) :
           \E m \in Range(get_valid_moves(board, sq[1], sq[2])) : ~is_capture(m)

\* the Kings of a side
KingsOf(b, player) == {sq \in PiecesOf(b, player) : At(b, sq).piece_type = KING}

\* the i-th jump of the chain of m is a jump of a King of `player`: along one
\* diagonal, over empty squares and squares captured earlier in the chain, to
\* the first piece not yet captured, which is an opposing one, and onto the
\* empty square of the board right behind it
KingJump(b, player, m, i) ==
    LET before == LandingOf(m, i - 1)
        over == m.captured_pieces[i]
        land == LandingOf(m, i)
        earlier == {m.captured_pieces[j] : j \in 1 .. (i - 1)}
    IN  /\ \E d \in Diagonals, k \in 1 .. (size - 1) :
               /\ over = Step(before, d, k)
               /\ land = Step(before, d, k + 1)
               /\ \A j \in 1 .. (k - 1) :
                      \/ At(b, Step(before, d, j)) = None
                      \/ Step(before, d, j) \in earlier
        /\ OnBoard(over) /\ OnBoard(land)
        /\ over \notin earlier
        /\ At(b, over) # None /\ At(b, over).player = Opponent(player)
        /\ At(b, land) = None

\* C25: in each jump of a capture chain of a King the King passes along one
\* diagonal over empty squares and squares captured earlier to the first piece
\* not yet captured; that piece is an opposing one, the square right behind it
\* is on the board and empty, and the King lands on that square and no
\* farther. The first jumps returned are exactly those: a direction whose
\* first piece is an own piece, or whose square behind the piece is taken or
\* off the board, gives no capture.
C25_KingJumpGeometry ==
    \A player \in Player :
        \A sq \in KingsOf(board, player) :
            /\ \A m \in CapturesOf(board, sq) :
                   /\ m.from_pos = sq
                   /\ \A i \in 1 .. Len(m.captured_pieces) : KingJump(board, player, m, i)
                   /\ m.to_pos = LandingOf(m, Len(m.captured_pieces))
            /\ {<<m.captured_pieces[1], LandingOf(m, 1)>> : m \in CapturesOf(board, sq)}
               = JumpsFrom(board, player, KING, sq, {})

\* C25 witness: a King has a capture whose first jump starts two or more
\* squares away from the captured piece, and a King has an opposing piece on a
\* diagonal that it cannot jump
C25_Witness ==
    /\ \E player \in Player : \E sq \in KingsOf(board, player) :
           \E m \in CapturesOf(board, sq) :
               m.captured_pieces[1] \notin {Step(sq, d, 1) : d \in Diagonals}
    /\ \E player \in Player : \E sq \in KingsOf(board, player) :
           \E d \in Diagonals, k \in 1 .. (size - 1) :
               /\ OnBoard(Step(sq, d, k))
               /\ At(board, Step(sq, d, k)) # None
               /\ At(board, Step(sq, d, k)).player = Opponent(player)
               /\ \A m \in CapturesOf(board, sq) : m.captured_pieces[1] # Step(sq, d, k)

\* C26: a King that has no capture gets exactly one quiet Move to each square
\* it reaches along one of the four diagonals over empty squares of the board
\* only, up to and without the first occupied square; a King that has a
\* capture gets no quiet move.
C26_KingQuietMoves ==
    \A player \in Player :
        \A sq \in KingsOf(board, player) :
            LET moves == get_valid_moves(board, sq[1], sq[2])
            IN  IF CanJump(board, sq)
                THEN \A i \in 1 .. Len(moves) : moves[i].captured_pieces # <<>>
                ELSE /\ Range(moves) = QuietMoves(board, sq)
                     /\ NoDuplicates(moves)

\* C26 witness: a King without a capture slides two or more squares and is
\* stopped by a piece on a diagonal, and a King with a capture has an empty
\* square next to it
C26_Witness ==
    /\ \E player \in Player : \E sq \in KingsOf(board, player) :
           /\ ~CanJump(board, sq)
           /\ \E m \in Range(get_valid_moves(board, sq[1], sq[2])) :
                  m.to_pos \notin {Step(sq, d, 1) : d \in Diagonals}
           /\ \E d \in Diagonals, k \in 2 .. (size - 1) :
                  /\ OnBoard(Step(sq, d, k))
                  /\ At(board, Step(sq, d, k)) # None
                  /\ \A i \in 1 .. (k - 1) : At(board, Step(sq, d, i)) = None
    /\ \E player \in Player : \E sq \in KingsOf(board, player) :
           /\ CanJump(board, sq)
           /\ \E d \in Diagonals : OnBoard(Step(sq, d, 1)) /\ At(board, Step(sq, d, 1)) = None

-----------------------------------------------------------------------------
(* Claims about the values of the search *)

RECURSIVE ChildValues(_, _, _, _, _, _)
\* minimax(child, depth - 1, -inf, +inf, minimizing, player) for the child of
\* each of the legal moves lo..hi, each on a copy of the board of its own
ChildValues(b, moves, lo, hi, player, depth) ==
    IF lo > hi THEN <<>>
    ELSE IF lo = hi
    THEN <<minimax(<<execute_move(b, moves[lo])>>, 1, depth - 1, -inf, inf, FALSE,
                   player, 1).val>>
    ELSE ChildValues(b, moves, lo, (lo + hi) \div 2, player, depth)
         \o ChildValues(b, moves, (lo + hi) \div 2 + 1, hi, player, depth)

\* the values of the root children of the search that has returned
RootValues ==
    ChildValues(best.board, SearchMoves, 1, Len(SearchMoves), best.player, best.depth)

\* the largest element of a non-empty sequence of values
Largest(vals) == CHOOSE v \in Range(vals) : \A w \in Range(vals) : w <= v

\* C27: with two or more legal moves get_best_move returns the earliest move
\* in the order of get_all_valid_moves among those whose child value
\* minimax(child, depth - 1, -inf, +inf, minimizing, player) is the largest.
C27_RootMoveSelection ==
    (Searched /\ Len(SearchMoves) >= 2) =>
        \A vals \in {RootValues} :
            \E i \in 1 .. Len(SearchMoves) :
                /\ best.move = SearchMoves[i]
                /\ vals[i] = Largest(vals)
                /\ \A j \in 1 .. (i - 1) : vals[j] < vals[i]

\* C27 witness: the largest child value is the value of several moves, the
\* first of them is not the first legal move, and the search returned it
C27_Witness ==
    /\ Searched
    /\ Len(SearchMoves) >= 2
    /\ \E vals \in {RootValues} :
           \E i, k \in 2 .. Len(SearchMoves) :
               /\ i < k
               /\ best.move = SearchMoves[i]
               /\ vals[i] = Largest(vals)
               /\ vals[k] = Largest(vals)

\* minimax, or evaluate, has been called on the live board and has returned
MinimaxCalled == call.name = "minimax"
Evaluated == call.name = "evaluate"

\* the value x.0 of a whole number x
Whole(x) == Float(10 * x, 0)

\* C28: minimax tests the end of the game before the depth: on a board where
\* the game is over, at any remaining depth and at depth 0 too, it makes no
\* further call and its value is 1000 + remaining depth when ai_player is the
\* winner and -(1000 + remaining depth) when the opponent is; the same win
\* with more remaining depth has a strictly higher value; a win is worth at
\* least 1000, a loss at most -1000, and every static evaluation lies strictly
\* between -1000 and 1000.
C28_TerminalScoring ==
    /\ MinimaxCalled =>
           \A over \in {is_game_over(call.board)} :
               /\ (over[1] /\ over[2] = call.ai_player) =>
                      /\ call.val = Whole(1000 + call.depth)
                      /\ call.val >= Whole(1000)
                      /\ call.seen.nodes = 1
                      /\ \A deeper \in (call.depth + 1) .. MaxDepth :
                             minimax(<<call.board>>, 1, deeper, -inf, inf, call.maximizing,
                                     call.ai_player, 0).val > call.val
               /\ (over[1] /\ over[2] = Opponent(call.ai_player)) =>
                      /\ call.val = -Whole(1000 + call.depth)
                      /\ call.val <= -Whole(1000)
                      /\ call.seen.nodes = 1
               /\ (~over[1] /\ call.depth = 0) =>
                      /\ call.val = evaluate(call.board, call.ai_player)
                      /\ -Whole(1000) < call.val /\ call.val < Whole(1000)
    /\ Evaluated => -Whole(1000) < call.val /\ call.val < Whole(1000)

\* C28 witness: minimax was called with depth 0 on a board where the game is
\* over and ai_player has won, and the static evaluation of that board for
\* ai_player is another value
C28_Witness ==
    /\ MinimaxCalled
    /\ call.depth = 0
    /\ is_game_over(call.board) = <<TRUE, call.ai_player>>
    /\ evaluate(call.board, call.ai_player) # call.val

\* the rows a Man of `player` on `row` has advanced
RowsAdvanced(player, row) == IF player = WHITE THEN 7 - row ELSE row

RECURSIVE MenAdvance(_, _, _)
\* the rows advanced by the Men of `player` on `row` and the rows below it
MenAdvance(b, player, row) ==
    IF row >= size THEN 0
    ELSE RowsAdvanced(player, row) * Cardinality({sq \in MenOf(b, player) : sq[1] = row})
         + MenAdvance(b, player, row + 1)

\* S(x) in halves: 3.0 a King, 1.0 a Man and 0.5 a row advanced by a Man
SideScore(b, player) ==
    6 * Cardinality(KingsOf(b, player)) + 2 * Cardinality(MenOf(b, player))
    + MenAdvance(b, player, 0)

\* the double that halves * 0.5 + 0.1 * n evaluates to
Double(halves, n) == Float(5 * halves + n, FloatError(halves, n))

\* C29: evaluate(board, side) is S(side) - S(opponent) + 0.1 * (the number of
\* legal moves of side - the number of legal moves of the opponent) in double
\* arithmetic, S(x) being 3.0 for each King of x and 1.0 + 0.5 * rows advanced
\* (7 - row for WHITE, row for BLACK) for each Man of x; a King gets nothing
\* for its row.
C29_StaticEvaluation ==
    Evaluated =>
        LET side == call.ai_player
            opponent == Opponent(side)
        IN  call.val = Double(SideScore(call.board, side) - SideScore(call.board, opponent),
                              Len(get_all_valid_moves(call.board, side))
                              - Len(get_all_valid_moves(call.board, opponent)))

\* C29 witness: evaluate was called on a board where both sides have Men off
\* their first rows, a side has a King off the row its Men start from, and the
\* sides differ in the number of their legal moves
C29_Witness ==
    /\ Evaluated
    /\ \A player \in Player : MenAdvance(call.board, player, 0) > 0
    /\ \E player \in Player : \E sq \in KingsOf(call.board, player) :
           RowsAdvanced(player, sq[1]) > 0
    /\ Len(get_all_valid_moves(call.board, WHITE))
       # Len(get_all_valid_moves(call.board, BLACK))

\* the smallest element of a non-empty sequence of values
Smallest(vals) == CHOOSE v \in Range(vals) : \A w \in Range(vals) : v <= w

RECURSIVE Total(_, _)
\* the sum of a sequence of numbers from the i-th on
Total(nums, i) == IF i > Len(nums) THEN 0 ELSE nums[i] + Total(nums, i + 1)

RECURSIVE PlainMinimax(_, _, _, _)
RECURSIVE PlainChildren(_, _, _, _, _, _, _)

\* plain depth-limited minimax of the children of `b` by the moves lo..hi
PlainChildren(b, moves, lo, hi, depth, maximizing, ai_side) ==
    IF lo > hi THEN <<>>
    ELSE IF lo = hi
    THEN <<PlainMinimax(execute_move(b, moves[lo]), depth - 1, ~maximizing, ai_side)>>
    ELSE PlainChildren(b, moves, lo, (lo + hi) \div 2, depth, maximizing, ai_side)
         \o PlainChildren(b, moves, (lo + hi) \div 2 + 1, hi, depth, maximizing,
                          ai_side)

\* minimax without a window: every move of every node is searched; the value
\* of a finished game and of a leaf are those of minimax. `nodes` counts the
\* nodes visited.
PlainMinimax(b, depth, maximizing, ai_side) ==
    LET player == IF maximizing THEN ai_side ELSE Opponent(ai_side)
    IN  Only({
            IF over[1]
            THEN [val |-> IF over[2] = ai_side THEN Whole(1000 + depth)
                          ELSE IF over[2] = Opponent(ai_side) THEN -Whole(1000 + depth)
                          ELSE Whole(0),
                  nodes |-> 1]
            ELSE IF depth = 0 THEN [val |-> evaluate(b, ai_side), nodes |-> 1]
            ELSE Only({
                IF moves = <<>> THEN [val |-> evaluate(b, ai_side), nodes |-> 1]
                ELSE Only({
                    [val |-> IF maximizing
                             THEN Largest([i \in 1 .. Len(children) |-> children[i].val])
                             ELSE Smallest([i \in 1 .. Len(children) |-> children[i].val]),
                     nodes |-> 1 + Total([i \in 1 .. Len(children) |-> children[i].nodes],
                                         1)] :
                    children \in {PlainChildren(b, moves, 1, Len(moves), depth,
                                                maximizing, ai_side)} }) :
                moves \in {get_all_valid_moves(b, player)} }) :
            over \in {is_game_over(b)} })

\* the root children of the search that has returned, searched without a window
PlainRoot ==
    PlainChildren(best.board, SearchMoves, 1, Len(SearchMoves), best.depth, TRUE,
                  best.player)

\* C30: pruning does not change the result: the value minimax gives to each
\* root child, with the window, is the value of plain depth-limited minimax
\* of that child, and get_best_move returns the move plain minimax chooses:
\* the first legal move of the largest plain value, None without legal moves.
C30_PruningKeepsResult ==
    Searched =>
        \A plain \in {PlainRoot} :
            /\ \A vals \in {RootValues} :
                   \A i \in 1 .. Len(SearchMoves) : vals[i] = plain[i].val
            /\ IF SearchMoves = <<>> THEN best.move = NoMove
               ELSE \E i \in 1 .. Len(SearchMoves) :
                        /\ best.move = SearchMoves[i]
                        /\ \A j \in 1 .. Len(SearchMoves) : plain[j].val <= plain[i].val
                        /\ \A j \in 1 .. (i - 1) : plain[j].val < plain[i].val

\* C30 witness: a search among several moves that visited fewer nodes than
\* plain minimax visits, so a loop was cut short
C30_Witness ==
    /\ Searched
    /\ Len(SearchMoves) >= 2
    /\ \E plain \in {PlainRoot} :
           best.seen.nodes < Total([i \in 1 .. Len(plain) |-> plain[i].nodes], 1)

-----------------------------------------------------------------------------
(* Claims about the origin square of a moving piece *)

\* C31: no legal Move returns a piece to its starting square: every Move of
\* get_valid_moves starts on the piece's square and ends on another one; in a
\* King's chain no jump lands on the King's origin square and no jump scans
\* through it; and after execute_move of such a Move the moved piece stands on
\* the destination square.
C31_OriginStaysOccupied ==
    \A sq \in Squares :
        At(board, sq) # None =>
            \A m \in Range(get_valid_moves(board, sq[1], sq[2])) :
                /\ m.from_pos = sq
                /\ m.to_pos # m.from_pos
                /\ At(board, sq).piece_type = KING =>
                       \A i \in 1 .. Len(m.captured_pieces) :
                           /\ LandingOf(m, i) # sq
                           /\ sq \notin ScannedBy(m, i)
                /\ At(execute_move(board, m), m.to_pos) # None
                /\ At(execute_move(board, m), m.to_pos).player = At(board, sq).player

\* C31 witness: a King with a returned chain after which, were the King's
\* origin square empty, a further jump would run over that square
C31_Witness ==
    \E sq \in Squares :
        /\ At(board, sq).piece_type = KING
        /\ \E m \in CapturesOf(board, sq) :
               /\ JumpsFrom(board, At(board, sq).player, KING, m.to_pos,
                            Range(m.captured_pieces)) = {}
               /\ JumpsFrom(Lift(board, sq), At(board, sq).player, KING, m.to_pos,
                            Range(m.captured_pieces)) # {}

-----------------------------------------------------------------------------
(* Claims about the action index and the move list of the env *)

\* C35: step with action_index < 0 or >= the number of valid moves raises
\* ValueError and leaves board, current_player, done and the valid-move list
\* as they were; a valid index i applies exactly the i-th Move of
\* get_valid_actions(), the list as it was before the call.
C35_StepActionIndex ==
    (Stepped /\ ~call.before.done) =>
        /\ (call.action_index < 0 \/ call.action_index >= Len(call.before.valid_moves))
           => /\ call.raised = "ValueError"
              /\ EnvState = call.before
        /\ (0 <= call.action_index /\ call.action_index < Len(call.before.valid_moves))
           => /\ call.raised = "NONE"
              /\ last_move = call.before.valid_moves[call.action_index + 1]
              /\ board = execute_move(call.before.board, last_move)
              /\ current_player = Opponent(call.before.current_player)

\* C35 witness: step has been called with index -1 while moves were on offer
C35_Witness ==
    /\ Stepped
    /\ ~call.before.done
    /\ call.action_index = -1
    /\ Len(call.before.valid_moves) >= 2
    /\ call.raised = "ValueError"

\* C36: once reset has been called, whatever steps follow: while done is
\* False the cached valid-move list is get_all_valid_moves(board,
\* current_player) and is not empty; when done is True the cached list is
\* empty and is_game_over(board) is true.
C36_EnvCache ==
    board # None =>
        /\ ~done => /\ _valid_moves = get_all_valid_moves(board, current_player)
                    /\ _valid_moves # <<>>
        /\ done => /\ _valid_moves = <<>>
                   /\ is_game_over(board)[1]

\* C36 witness: a step has been made after which the game goes on, and the
\* two sides have different moves
C36_Witness ==
    /\ StepReturned
    /\ ~done
    /\ _valid_moves # get_all_valid_moves(board, Opponent(current_player))

-----------------------------------------------------------------------------
(* Claims about the games the front ends play *)

\* the window, the console program
InGui == ui = "GUI"
InCli == ui \in {"CLI", "CLI.play_turn", "CLI.select_move", "OFF"}

\* the last handler of a front end, or the last step of the env, has executed
\* a move
MoveExecuted ==
    \/ call.name \in {"handle_click", "play_ai_turn", "select_move"} /\ call.executed
    \/ StepReturned

\* the last input has been handled without a move: a click or a line that
\* selects, deselects or does nothing, an action index that raises
NoMoveExecuted ==
    \/ /\ call.name \in {"handle_click", "play_ai_turn", "select_piece", "select_move",
                          "select_game_mode"}
       /\ ~call.executed
    \/ Stepped /\ call.raised # "NONE"

\* C33: strict turn alternation in the env, the console program and the
\* window: WHITE is to move in a constructed front end and after reset; every
\* executed move (capture or not, ending the game or not) is applied to the
\* board the handler found and switches current_player, once; an input that
\* executes no move leaves board and current_player as they were; in the
\* window WHITE is to move exactly when no white move waits for its round, in
\* the console program exactly after an even number of moves.
C33_TurnAlternation ==
    /\ (ply = 0 \/ call.name = "reset") => current_player = WHITE
    /\ MoveExecuted =>
           /\ current_player \in Player
           /\ call.before.current_player \in Player
           /\ current_player # call.before.current_player
           /\ At(call.before.board, last_move.from_pos).player = call.before.current_player
           /\ board = execute_move(call.before.board, last_move)
    /\ NoMoveExecuted =>
           /\ board = call.before.board
           /\ current_player = call.before.current_player
    /\ InGui => (current_player = WHITE <=> current_round_white_move = NoNotation)
    /\ InCli => (current_player = WHITE <=> ply % 2 = 0)

\* C33 witness: in the window a capture has been executed that ends the game
C33_Witness ==
    /\ InGui
    /\ MoveExecuted
    /\ is_capture(last_move)
    /\ done
    /\ ~call.before.current_player = current_player

\* a player has a piece selected: after a selecting click in the window, at
\* the move prompt of the console program
PieceSelected == selected_pos # NoPos

\* the last handler has executed a move the player chose
HumanMoved == call.name \in {"handle_click", "select_move"} /\ call.executed

\* some move of get_all_valid_moves(b, player) is a capture
MustCapture(b, player) == \E m \in Range(get_all_valid_moves(b, player)) : is_capture(m)

\* C34: every move a player executes through the console program or the
\* window is in get_all_valid_moves(board, current_player) of the position it
\* is made in; the moves offered for a selected piece are moves of that list
\* from the selected square, at least one; when the side has a capture, only
\* captures are offered, so a piece without a capture is not selected.
C34_HumanMovesLegal ==
    /\ HumanMoved =>
           InList(last_move,
                  get_all_valid_moves(call.before.board, call.before.current_player))
    /\ PieceSelected =>
           /\ valid_moves # <<>>
           /\ \A m \in Range(valid_moves) :
                  /\ InList(m, get_all_valid_moves(board, current_player))
                  /\ m.from_pos = selected_pos
                  /\ MustCapture(board, current_player) => is_capture(m)

\* C34 witness: a player has executed a capture in a position where another
\* piece of the side had moves, none of them a capture
C34_Witness ==
    /\ HumanMoved
    /\ is_capture(last_move)
    /\ \E sq \in PiecesOf(call.before.board, call.before.current_player) :
           /\ sq # last_move.from_pos
           /\ get_valid_moves(call.before.board, sq[1], sq[2]) # <<>>
           /\ CapturesOf(call.before.board, sq) = {}

\* a front end has asked get_best_move for the AI's move
AiAsked == Searched /\ (InGui \/ InCli)

\* C32: whenever is_game_over(board) returns (False, None) both sides have a
\* piece and a legal move, and whenever it returns True it names a winner;
\* so no call of minimax returns through the no-legal-moves fallback or
\* through the no-winner branch, and in the console program and the window,
\* whose game-over flag is that of is_game_over(board), the AI has a move as
\* long as the flag is not set and get_best_move does not return None.
C32_NotOverMeansBothCanMove ==
    /\ board # None =>
           /\ is_game_over(board) = <<FALSE, "NONE">> =>
                  \A player \in Player :
                      /\ PiecesOf(board, player) # {}
                      /\ get_all_valid_moves(board, player) # <<>>
           /\ is_game_over(board)[1] => is_game_over(board)[2] \in Player
           /\ is_game_over(board)[1] \/ is_game_over(board)[2] = "NONE"
    /\ Searched =>
           /\ best.seen.fallbacks = 0
           /\ best.seen.draws = 0
    /\ (InGui \/ InCli) =>
           /\ done = is_game_over(board)[1]
           /\ ~done => get_all_valid_moves(board, ai_player) # <<>>
    /\ AiAsked => best.move # NoMove

\* C32 witness: in the window the AI has searched a position in which the game
\* was not over, and the search has met a position, two plies on, in which it
\* is
C32_Witness ==
    /\ InGui
    /\ AiAsked
    /\ call.name = "play_ai_turn"
    /\ is_game_over(best.board) = <<FALSE, "NONE">>
    /\ best.depth >= 2
    /\ best.seen.nodes > Len(SearchMoves)
    /\ \E m \in Range(SearchMoves) :
       \E reply \in Range(get_all_valid_moves(execute_move(best.board, m),
                                              Opponent(best.player))) :
           is_game_over(execute_move(execute_move(best.board, m), reply))[1]

-----------------------------------------------------------------------------
(* Claims about undo and replay in the window *)

\* the six fields a snapshot holds
Kept(state) ==
    [board |-> state.board, current_player |-> state.current_player,
     move_log |-> state.move_log,
     current_round_white_move |-> state.current_round_white_move,
     game_over |-> state.game_over, winner |-> state.winner]

\* the last handler was undo, with a snapshot to pop
Undone == call.name = "undo" /\ ~call.idle

\* C37: undo is the inverse of one executed move. The undo stack holds one
\* snapshot per executed move not taken back, each with the six fields (board,
\* current_player, move_log, current_round_white_move, game_over, winner) as
\* they were just before that move, whatever moves have been made since; undo
\* pops one snapshot, restores the six fields to those values and clears the
\* selection, so that k undos after k moves give the state k plies earlier;
\* undo with an empty stack changes nothing.
C37_UndoInverse ==
    InGui =>
        /\ Len(history) = Len(trail)
        /\ \A i \in 1 .. Len(history) : Kept(history[i]) = trail[i]
        /\ (call.name \in {"handle_click", "play_ai_turn"} /\ call.executed) =>
               /\ history # <<>>
               /\ history[Len(history)].board = call.before.board
               /\ history[Len(history)].current_player = call.before.current_player
        /\ Undone =>
               /\ GameFields = call.before.trail[Len(call.before.trail)]
               /\ history = SubSeq(call.before.history, 1, Len(call.before.history) - 1)
               /\ selected_pos = NoPos
               /\ valid_moves = <<>>
        /\ (call.name = "undo" /\ call.idle) =>
               /\ history = <<>>
               /\ board = call.before.board
               /\ current_player = call.before.current_player

\* C37 witness: a move of the player and the AI's answer have been taken back
\* by two undos, back to the initial position
C37_Witness ==
    /\ InGui
    /\ Undone
    /\ Searched
    /\ ply = 2
    /\ Len(call.before.history) = 1
    /\ call.before.current_player = BLACK
    /\ board = setup_initial_position
    /\ current_player = WHITE
    /\ history = <<>>

\* the AI has moved at the end of a frame whose last event was an undo on
\* WHITE's turn that had a snapshot to pop: control is back with the player
ControlBackAfterUndo ==
    /\ InGui
    /\ call.name = "play_ai_turn"
    /\ call.executed
    /\ call.follows_undo
    /\ call.undone.current_player = WHITE
    /\ current_player = WHITE

\* C38: in the window, with the AI playing BLACK, an undo on WHITE's turn
\* takes a move back: when control is next with the player the undo stack is
\* shorter than it was before the undo and the board is not the one the undo
\* was issued from.
C38_UndoTakesMoveBack ==
    ControlBackAfterUndo =>
        /\ Len(history) < Len(call.undone.history)
        /\ board # call.undone.board

\* the game in the window as load_csv replays it from the file save_csv
\* writes of its move log
Replayed == load_csv(save_csv(move_log, current_round_white_move))

\* C39: replay round trip: the move log recorded for the game in the window
\* (clicks of the player and moves of the AI), replayed by load_csv on a fresh
\* board, is applied to its end, each move one of get_all_valid_moves for the
\* side to move, and gives the board and the side to move of the game.
C39_ReplayRoundTrip ==
    InGui =>
        /\ ~Replayed.stopped
        /\ Replayed.board = board
        /\ Replayed.current_player = current_player

====
